---- MODULE Spec2Model ----
(***************************************************************************)
(* question.sh: the per-connection session engine.                         *)
(*                                                                         *)
(* One SSH shell channel (src/unnamed/part_002, handleStream) feeds raw    *)
(* chunks to a ClientSession (src/clientSession.ts), which edits an input  *)
(* line, dispatches commands, runs the interactive auth dialog, streams    *)
(* chat replies and plays adventure turns (src/adventureMode.ts).          *)
(*                                                                         *)
(* Node runs one event at a time: a step of the model is one macrotask,    *)
(* that is one "data" event or the resolution of one awaited collaborator  *)
(* call, together with every microtask continuation it triggers.           *)
(* Strings are TLA+ strings; credits are counted in units of 1/30 USD.     *)
(***************************************************************************)
EXTENDS Integers, Sequences, FiniteSets, Bags, TLC

\* ------------------------------------------------------------------------
\* Bounds of the environment (not program constants)
\* ------------------------------------------------------------------------
MaxTasks == 2
MaxBuf == 2
MaxConv == 3

MaxCasts == 1

MaxCalls == 1

\* ------------------------------------------------------------------------
\* JavaScript string operations used by the code
\* ------------------------------------------------------------------------
NULL == "<null>"

CharAt(s, i) == SubSeq(s, i, i)

Min(a, b) == IF a < b THEN a ELSE b

\* String.prototype.slice(start, end), 0-based, end exclusive, 0 <= start
Slice(s, start, end) == SubSeq(s, start + 1, Min(end, Len(s)))

\* String.prototype.slice(start)
SliceFrom(s, start) == SubSeq(s, start + 1, Len(s))

IsSpace(c) == c = " "

RECURSIVE TrimStart(_)
TrimStart(s) ==
  IF Len(s) > 0 /\ IsSpace(CharAt(s, 1)) THEN TrimStart(SliceFrom(s, 1)) ELSE s

RECURSIVE TrimEnd(_)
TrimEnd(s) ==
  IF Len(s) > 0 /\ IsSpace(CharAt(s, Len(s)))
  THEN TrimEnd(Slice(s, 0, Len(s) - 1)) ELSE s

\* String.prototype.trim()
Trim(s) == TrimEnd(TrimStart(s))

LowerChar(c) ==
  CASE c = "E" -> "e"
    [] c = "X" -> "x"
    [] c = "I" -> "i"
    [] c = "T" -> "t"
    [] OTHER -> c

RECURSIVE ToLowerCase(_)
ToLowerCase(s) ==
  IF Len(s) = 0 THEN ""
  ELSE LowerChar(CharAt(s, 1)) \o ToLowerCase(SliceFrom(s, 1))

\* String.prototype.startsWith(p)
StartsWith(s, p) == Len(s) >= Len(p) /\ SubSeq(s, 1, Len(p)) = p

\* String.prototype.includes(c)
Includes(s, c) == \E i \in 1..(Len(s) - Len(c) + 1) : SubSeq(s, i, i + Len(c) - 1) = c

AlnumChars ==
  {"a", "b", "c", "d", "e", "f", "g", "h", "i", "j", "k", "l", "m", "n", "o",
   "p", "q", "r", "s", "t", "u", "v", "w", "x", "y", "z", "E", "X", "I", "T",
   "0", "1", "2", "3", "4", "5", "6", "7", "8", "9"}

\* /^[a-zA-Z0-9]+$/.test(s)
IsAlnum(s) == Len(s) > 0 /\ \A i \in 1..Len(s) : CharAt(s, i) \in AlnumChars

\* String.prototype.split(" "): every single space separates two fields
RECURSIVE SplitFrom(_, _, _)
SplitFrom(s, i, cur) ==
  IF i > Len(s) THEN <<cur>>
  ELSE IF CharAt(s, i) = " " THEN <<cur>> \o SplitFrom(s, i + 1, "")
  ELSE SplitFrom(s, i + 1, cur \o CharAt(s, i))

Split(s) == SplitFrom(s, 1, "")

\* Array.prototype.join(" ")
RECURSIVE Join(_)
Join(a) ==
  IF Len(a) = 0 THEN ""
  ELSE IF Len(a) = 1 THEN a[1]
  ELSE a[1] \o " " \o Join(Tail(a))

\* ------------------------------------------------------------------------
\* Raw chunks: control bytes are written by name
\* ------------------------------------------------------------------------
ETX == "<ETX>"
ESC == "<ESC>"
DEL == "<DEL>"
CR == "<CR>"
ArrowUp == ESC \o "[A"
ArrowDown == ESC \o "[B"
ArrowRight == ESC \o "[C"
ArrowLeft == ESC \o "[D"
ControlBytes == {ETX, ESC, DEL, CR}

\* input.length === 1 && input.charCodeAt(0) >= 32
IsPrintableChar(input) == Len(input) = 1

\* ------------------------------------------------------------------------
\* Program constants
\* ------------------------------------------------------------------------
\* Credits are counted in units of 1/30 USD: 0.1 USD = 3, 0.3 USD = 9.
GuestCredits == 3
RegisterCredits == 9
\* PROFIT_RATE = 1.5 = ProfitNum / ProfitDen
ProfitNum == 3
ProfitDen == 2
MinFieldLen == 3
MaxFieldLen == 50

DefaultModel == "google/gemini-2.0-flash-thinking-exp:free"
PaidModel == "anthropic/claude-3.5-sonnet"
ClientIP == "10.0.0.7"

\* ------------------------------------------------------------------------
\* State
\* ------------------------------------------------------------------------
VARIABLES
  inputHandler,           \* "line": setInputHandler's closure; "dialog": getInput's
                          \* closure; "null": null, handleStream edits session.buffer
  inputBuffer,            \* ClientSession.inputBuffer (edited by the "line" handler)
  buffer,                 \* ClientSession.buffer (edited by handleStream)
  cursorPos,
  conversation,
  credits,
  model,
  systemPrompt,
  temperature,            \* in tenths: 10 is 1.0
  userId,
  username,
  currentCharacter,
  isInAdventure,
  gameEndChoice,
  adventureConversation,
  guestCredits,           \* guestCredits.get(clientIP)
  accounts,               \* table accounts
  characters,             \* table characters
  gameSaves,              \* table game_saves
  cachedModelList,        \* the model list cached by fetchAndCacheModelList
  tasks,                  \* the suspended async calls of this session
  ended,                  \* stream.end() was called
  script,                 \* the vocabulary of the user of this session
  currentRoom,            \* ClientSession.currentRoom of each session (index.ts)
  members,                \* Room.members of each room of the registry rooms,
                          \* in the insertion order that Set.forEach follows
  room_members,           \* table room_members
  calls,                  \* the suspended handleCommand call of each session
  casts,                  \* the calls of Room.broadcast awaiting addMessage
  closed,                 \* the sessions whose channel closed or ended
  turn,                   \* the locals of the delta loop of handleAdventureMessage
  peer,                   \* a second ClientSession on the same storage
  ev                      \* what the last step wrote and which collaborators it called

sessionVars ==
  <<inputHandler, inputBuffer, buffer, cursorPos, conversation, credits, model,
    systemPrompt, temperature, userId, username, currentCharacter, isInAdventure,
    gameEndChoice, adventureConversation, guestCredits, accounts, characters,
    gameSaves, cachedModelList, tasks, ended, script, turn, peer>>

roomVars == <<currentRoom, members, room_members, calls, casts, closed>>

vars == <<sessionVars, roomVars, ev>>

\* The state as one record, so that a handler is an operator from state to state.
St ==
  [inputHandler |-> inputHandler, inputBuffer |-> inputBuffer, buffer |-> buffer,
   cursorPos |-> cursorPos, conversation |-> conversation, credits |-> credits,
   model |-> model, systemPrompt |-> systemPrompt, temperature |-> temperature,
   userId |-> userId, username |-> username,
   currentCharacter |-> currentCharacter, isInAdventure |-> isInAdventure,
   gameEndChoice |-> gameEndChoice, adventureConversation |-> adventureConversation,
   guestCredits |-> guestCredits, accounts |-> accounts, characters |-> characters,
   gameSaves |-> gameSaves, cachedModelList |-> cachedModelList, tasks |-> tasks,
   ended |-> ended, script |-> script, ev |-> {}]

Set(s) ==
  /\ inputHandler' = s.inputHandler
  /\ inputBuffer' = s.inputBuffer
  /\ buffer' = s.buffer
  /\ cursorPos' = s.cursorPos
  /\ conversation' = s.conversation
  /\ credits' = s.credits
  /\ model' = s.model
  /\ systemPrompt' = s.systemPrompt
  /\ temperature' = s.temperature
  /\ userId' = s.userId
  /\ username' = s.username
  /\ currentCharacter' = s.currentCharacter
  /\ isInAdventure' = s.isInAdventure
  /\ gameEndChoice' = s.gameEndChoice
  /\ adventureConversation' = s.adventureConversation
  /\ guestCredits' = s.guestCredits
  /\ accounts' = s.accounts
  /\ characters' = s.characters
  /\ gameSaves' = s.gameSaves
  /\ cachedModelList' = s.cachedModelList
  /\ tasks' = s.tasks
  /\ ended' = s.ended
  /\ script' = s.script
  /\ ev' = s.ev
  /\ UNCHANGED <<roomVars, turn, peer>>

\* accounts rows of init.sql; bcrypt is modelled as a tagged pair
Hash(p) == <<"bcrypt", p>>
Compare(p, h) == h = Hash(p)

InitAccounts ==
  {[id |-> "uuid-bob", username |-> "bob", email |-> "bob@x.io", credits |-> 3,
    password_hash |-> Hash("bob@")]}

\* the model list the provider returned at startup: pricing per token, in
\* credit units
Catalog ==
  {[id |-> DefaultModel, prompt |-> 0, completion |-> 0],
   [id |-> PaidModel, prompt |-> 1, completion |-> 1]}

\* ------------------------------------------------------------------------
\* Output and task bookkeeping
\* ------------------------------------------------------------------------
Out(s, what) == [s EXCEPT !.ev = @ \cup {what}]

writeToStream(s, message, addPrompt) ==
  [Out(s, message) EXCEPT !.cursorPos = IF addPrompt THEN 0 ELSE @]

writeCommandOutput(s, message) == Out(s, message)

NewTask(origin) ==
  [pc |-> "run", origin |-> origin, msg |-> "", mode |-> NULL, inbuf |-> "",
   username |-> NULL, password |-> NULL, email |-> NULL, row |-> {},
   tools |-> {}, arg |-> <<>>]

Without(seq, i) == SubSeq(seq, 1, i - 1) \o SubSeq(seq, i + 1, Len(seq))

Suspend(s, i, pc) == [s EXCEPT !.tasks[i].pc = pc]

\* The async call i returns. A call started by handleStream (origin "raw") was
\* awaited there, and handleStream goes on: session.buffer = ""; cursorPos = 0.
Return(s, i) ==
  LET raw == s.tasks[i].origin = "raw"
  IN [s EXCEPT !.tasks = Without(@, i),
               !.buffer = IF raw THEN "" ELSE @,
               !.cursorPos = IF raw THEN 0 ELSE @]

\* ------------------------------------------------------------------------
\* Messages written to the channel (the text of the source, shortened)
\* ------------------------------------------------------------------------
MsgOutOfCredits == "You have run out of credits. Please add more credits to continue."
MsgModelError == "Error, use /model to try another model."
MsgNoUsage == "Unable to calculate request cost due to missing usage data."
MsgCharLogin == "You need to be logged in to manage characters. Please use /register or /login first."
MsgPlayLogin == "You need to be logged in to play. Please use /login or /register first."
MsgAlreadyAdventure == "You are already in an adventure. Type 'exit' to leave the adventure mode."
MsgAdventureError == "An error occurred during the adventure. Please try again."
MsgCancelled == "Signup cancelled."
MsgTaken == "Username or email is already taken."
MsgGoodbye == "Session terminated. Goodbye!"
MsgEndMenu == "What would you like to do?"
MsgChoose == "Please choose 1 or 2:"
MsgWelcomeBack == "Welcome back! Type /help to see available commands."
MsgNoRetry == "No previous message to retry."
Prompt == "> "

\* Input events, recorded in ev: Enter submitted a line to handleMessage or to
\* handleGameEndChoice; Enter submitted a field of the auth dialog
Submitted == "key:enter:line"
FieldEntered == "key:enter:field"

\* Collaborator calls, recorded in ev
CallGeneration == "call:generation"
CallAccounts == "sql:accounts"
CallCharacters == "sql:characters"
CallGameSaves == "sql:game_saves"
CallBcrypt == "call:bcrypt"

\* ------------------------------------------------------------------------
\* ClientSession.streamResponse and the credit ledger
\* ------------------------------------------------------------------------
User(content) == [role |-> "user", content |-> content]
Assistant(content) == [role |-> "assistant", content |-> content]

\* The reply the generation collaborator streams for a request (fullResponse)
Reply(userMessage) == "re:" \o userMessage

calculateRequestCostSwapped(s, usage) ==
  LET pricing == {m \in s.cachedModelList : m.id = s.model}
  IN IF pricing = {} THEN 0
     ELSE LET m == CHOOSE m \in pricing : TRUE
          IN ((m.completion * usage.prompt_tokens
               + m.prompt * usage.completion_tokens) * ProfitNum) \div ProfitDen

calculateRequestCost(s, usage) ==
  LET pricing == {m \in s.cachedModelList : m.id = s.model}
  IN IF pricing = {} THEN 0
     ELSE LET m == CHOOSE m \in pricing : TRUE
          IN ((m.prompt * usage.prompt_tokens
               + m.completion * usage.completion_tokens) * ProfitNum) \div ProfitDen

IsAccountUser(s) == s.username # NULL /\ s.username # "guest"

\* a faulty credit check with the boundary moved, letting credits = 0 through:
\* the fault that C5_OutOfCredits is there to exclude
streamResponseBelowZero(s, i, userMessage) ==
  IF s.credits < 0
  THEN Return(writeCommandOutput(s, MsgOutOfCredits), i)
  ELSE Suspend([Out(Out(s, CallGeneration), "system:" \o s.systemPrompt) EXCEPT
                  !.tasks[i].msg = userMessage], i, "create")

\* streamResponse up to its first await: the credit test, then the request with
\* this.systemPrompt as its system message
streamResponse(s, i, userMessage) ==
  IF s.credits <= 0
  THEN Return(writeCommandOutput(s, MsgOutOfCredits), i)
  ELSE Suspend([Out(Out(s, CallGeneration), "system:" \o s.systemPrompt) EXCEPT
                  !.tasks[i].msg = userMessage], i, "create")

streamCatchCharged(s, i) ==
  Return(writeCommandOutput([s EXCEPT !.credits = @ - 1], MsgModelError), i)

\* catch (error) of streamResponse
streamCatch(s, i) == Return(writeCommandOutput(s, MsgModelError), i)

\* openai.chat.completions.create resolved: the stream is open
streamOpened(s, i) == Suspend(writeToStream(s, "\r<clear-line>", FALSE), i, "deltas")

\* chunk.usage of the last chunk, as the step's record of what it received
UsageReceived(u) ==
  "usage:" \o ToString(u.prompt_tokens) \o ":" \o ToString(u.completion_tokens)

\* a faulty completion that bills one credit unit when no usage record came
streamCompletedFlatFee(s, i, usage) ==
  LET msg == s.tasks[i].msg
      s1 == writeToStream(writeToStream(s, Reply(msg), FALSE), "\n", TRUE)
      s2 == [s1 EXCEPT !.conversation = @ \o <<User(msg), Assistant(Trim(Reply(msg)))>>]
  IN IF usage = {}
     THEN Return([writeCommandOutput(s2, MsgNoUsage) EXCEPT !.credits = @ - 1], i)
     ELSE LET u == CHOOSE u \in usage : TRUE
              s3 == [Out(s2, UsageReceived(u)) EXCEPT
                       !.credits = @ - calculateRequestCost(s2, u)]
          IN IF IsAccountUser(s3)
             THEN Suspend(Out(s3, CallAccounts), i, "updateCredits")
             ELSE Return([s3 EXCEPT !.guestCredits = s3.credits], i)

\* the for await loop ended; usage is the trailing usage record, or {} for none
streamCompleted(s, i, usage) ==
  LET msg == s.tasks[i].msg
      s1 == writeToStream(writeToStream(s, Reply(msg), FALSE), "\n", TRUE)
      s2 == [s1 EXCEPT !.conversation = @ \o <<User(msg), Assistant(Trim(Reply(msg)))>>]
  IN IF usage = {}
     THEN Return(writeCommandOutput(s2, MsgNoUsage), i)
     ELSE LET u == CHOOSE u \in usage : TRUE
              s3 == [Out(s2, UsageReceived(u)) EXCEPT
                       !.credits = @ - calculateRequestCost(s2, u)]
          IN IF IsAccountUser(s3)
             THEN Suspend(Out(s3, CallAccounts), i, "updateCredits")
             ELSE Return([s3 EXCEPT !.guestCredits = s3.credits], i)

\* updateCredits' UPDATE accounts resolved
creditsUpdated(s, i) ==
  Return([s EXCEPT !.accounts =
            {IF a.username = s.username THEN [a EXCEPT !.credits = s.credits] ELSE a
             : a \in @}], i)

\* ------------------------------------------------------------------------
\* adventureMode.ts
\* ------------------------------------------------------------------------
handleAdventureMessage(s, i, message) ==
  Suspend([Out(s, CallGeneration) EXCEPT
             !.adventureConversation = Append(@, User(message)),
             !.tasks[i].msg = message], i, "advStream")

adventureCatch(s, i) == Return(writeCommandOutput(s, MsgAdventureError), i)

\* after saveGameProgress: the end-of-game banner or the next prompt
adventureAfterSave(s, i) ==
  LET tools == s.tasks[i].tools
  IN IF "win_game" \in tools \/ "lose_game" \in tools
     THEN Suspend(writeToStream(s, IF "win_game" \in tools THEN "VICTORY"
                                   ELSE "SYSTEM FAILURE", FALSE), i, "advDelay")
     ELSE Return(writeToStream(s, Prompt, FALSE), i)

\* the stream and stream.finalChatCompletion() resolved with these tool calls
adventureCompleted(s, i, tools) ==
  LET msg == s.tasks[i].msg
      s1 == [writeToStream(s, Reply(msg), FALSE) EXCEPT
               !.adventureConversation = Append(@, Assistant(Trim(Reply(msg)))),
               !.tasks[i].tools = tools]
  IN IF "save_game" \in tools
     THEN IF s1.userId = NULL
          THEN adventureAfterSave(writeToStream(s1, "Game progress saved!", FALSE), i)
          ELSE Suspend([Out(s1, CallGameSaves) EXCEPT
                          !.tasks[i].arg = <<s1.userId, s1.adventureConversation>>],
                       i, "advSave")
     ELSE adventureAfterSave(s1, i)

\* saveGameProgress' upsert resolved (ok) or threw (caught there)
gameSaved(s, i, ok) ==
  LET a == s.tasks[i].arg
      s1 == IF ok
            THEN [s EXCEPT !.gameSaves =
                    {g \in @ : g.user_id # a[1]}
                    \cup {[user_id |-> a[1], conversation |-> a[2]]}]
            ELSE s
  IN adventureAfterSave(writeToStream(s1, "Game progress saved!", FALSE), i)

\* the 500 ms delay elapsed
adventureEnded(s, i) ==
  Return([writeToStream(s, MsgEndMenu, FALSE) EXCEPT
            !.gameEndChoice = TRUE,
            !.isInAdventure = FALSE,
            !.adventureConversation = <<>>], i)

handleAdventure(s, i, input) ==
  IF s.userId = NULL
  THEN Return(writeCommandOutput(s, MsgPlayLogin), i)
  ELSE IF ~s.isInAdventure
  THEN handleAdventureMessage(
         [writeToStream(s, "<clear-screen>", TRUE) EXCEPT
            !.isInAdventure = TRUE, !.adventureConversation = <<>>], i, "start")
  ELSE handleAdventureMessage(s, i, input)

handleGameEndChoice(s, i, input) ==
  CASE Trim(input) = "1" ->
         handleAdventureMessage(
           [writeToStream(s, "<clear-screen>", FALSE) EXCEPT
              !.isInAdventure = TRUE, !.gameEndChoice = FALSE,
              !.adventureConversation = <<>>], i, "start")
    [] Trim(input) = "2" ->
         Return([writeCommandOutput(s, MsgWelcomeBack) EXCEPT !.gameEndChoice = FALSE], i)
    [] OTHER -> Return(writeToStream(s, MsgChoose, FALSE), i)

\* ------------------------------------------------------------------------
\* ClientSession.handleInteractiveAuth
\* ------------------------------------------------------------------------
IsUuid(x) == StartsWith(x, "uuid-")

Uuid(name) == "uuid-" \o name

\* a faulty validation that accepts two-character fields: the fault that
\* C10_DialogOrderAndValidation is there to exclude
validateInputLax(input, type) ==
  IF Len(input) < MinFieldLen - 1 THEN type \o " must be at least 3 characters long."
  ELSE IF Len(input) > MaxFieldLen THEN type \o " must be less than 50 characters long."
  ELSE IF type = "email" /\ ~Includes(input, "@") THEN "Invalid email format."
  ELSE IF type = "username" /\ ~IsAlnum(input)
  THEN "Username must contain only alphanumeric characters."
  ELSE NULL

\* validateInput: the error, or NULL
validateInput(input, type) ==
  IF Len(input) < MinFieldLen THEN type \o " must be at least 3 characters long."
  ELSE IF Len(input) > MaxFieldLen THEN type \o " must be less than 50 characters long."
  ELSE IF type = "email" /\ ~Includes(input, "@") THEN "Invalid email format."
  ELSE IF type = "username" /\ ~IsAlnum(input)
  THEN "Username must contain only alphanumeric characters."
  ELSE NULL

DialogPcs == {"username", "password", "email"}

\* getInput up to its await: the prompt, and a new handler with an empty buffer
getInput(s, i, type) ==
  [writeCommandOutput(s, type \o ":") EXCEPT
     !.inputHandler = "dialog", !.tasks[i].inbuf = "", !.tasks[i].pc = type]

handleInteractiveAuth(s, i, mode) ==
  getInput([s EXCEPT !.tasks[i].mode = mode], i, "username")

resetInputHandler(s) == writeCommandOutput([s EXCEPT !.inputHandler = "line"], "")

\* a faulty cancellation that reports it but leaves the handler as it is: the
\* fault that C9_CtrlCAbortsDialog is there to exclude
authCancelledNoReset(s, i) == Return(writeCommandOutput(s, MsgCancelled), i)

\* the three "=== null" branches of handleInteractiveAuth
authCancelled(s, i) == Return(resetInputHandler(writeCommandOutput(s, MsgCancelled)), i)

\* this.inputHandler = null, then the first storage call of the mode
authResolve(s, i) ==
  Suspend(Out([s EXCEPT !.inputHandler = "null"], CallAccounts), i,
          IF s.tasks[i].mode = "register" THEN "regSelect" ELSE "loginSelect")

authAdvance(s, i, type, input) ==
  CASE type = "username" -> getInput([s EXCEPT !.tasks[i].username = input], i, "password")
    [] type = "password" ->
         IF s.tasks[i].mode = "register"
         THEN getInput([s EXCEPT !.tasks[i].password = input], i, "email")
         ELSE authResolve([s EXCEPT !.tasks[i].password = input, !.tasks[i].email = ""], i)
    [] OTHER -> authResolve([s EXCEPT !.tasks[i].email = input], i)

\* getInput's handler, installed as this.inputHandler while task i awaits a field
dialogHandler(s, i, char) ==
  LET t == s.tasks[i]
      type == t.pc
  IN CASE char = ETX -> authCancelled(Out(s, "^C"), i)
       [] char = CR ->
            LET input == Trim(t.inbuf)
                error == validateInput(input, type)
                s1 == Out(Out(s, "\n"), FieldEntered)
            IN IF error # NULL
               THEN getInput(writeCommandOutput(s1, error), i, type)
               ELSE authAdvance(s1, i, type, input)
       [] char = DEL ->
            IF Len(t.inbuf) > 0
            THEN [Out(s, "<BS> <BS>") EXCEPT !.tasks[i].inbuf = Slice(@, 0, Len(@) - 1)]
            ELSE s
       [] OTHER ->
            [Out(s, IF type = "password" THEN "*" ELSE "<echo>") EXCEPT
               !.tasks[i].inbuf = @ \o char]

registrationFailed(s, i) == Return(writeCommandOutput(s, "Registration failed."), i)

\* a faulty conflict check that looks at the email only: the fault that
\* C11_TakenUsernameRejected is there to exclude
regSelectedByEmail(s, i) ==
  LET t == s.tasks[i]
  IN IF \E a \in s.accounts : a.email = t.email
     THEN Return(writeCommandOutput(s, MsgTaken), i)
     ELSE Suspend(Out(s, CallBcrypt), i, "regHash")

\* SELECT id FROM accounts WHERE username = .. OR email = .. resolved
regSelected(s, i) ==
  LET t == s.tasks[i]
  IN IF \E a \in s.accounts : a.username = t.username \/ a.email = t.email
     THEN Return(writeCommandOutput(s, MsgTaken), i)
     ELSE Suspend(Out(s, CallBcrypt), i, "regHash")

\* bcrypt.hash resolved
regHashed(s, i) == Suspend(Out(s, CallAccounts), i, "regInsert")

\* a faulty INSERT on a table without the UNIQUE constraints: the fault that
\* C36_OneRegistrationWins is there to exclude
regInsertedUnchecked(s, i) ==
  LET t == s.tasks[i]
  IN Return(writeCommandOutput(
       [s EXCEPT !.accounts = @ \cup
                   {[id |-> Uuid(t.username), username |-> t.username,
                     email |-> t.email, credits |-> RegisterCredits,
                     password_hash |-> Hash(t.password)]},
                 !.userId = Uuid(t.username),
                 !.username = t.username,
                 !.credits = RegisterCredits], "Registered successfully."), i)

\* INSERT INTO accounts .. RETURNING id, credits resolved; the UNIQUE constraints
\* of init.sql make it throw for a taken username or email
regInserted(s, i) ==
  LET t == s.tasks[i]
  IN IF \E a \in s.accounts : a.username = t.username \/ a.email = t.email
     THEN registrationFailed(s, i)
     ELSE Return(writeCommandOutput(
            [s EXCEPT !.accounts = @ \cup
                        {[id |-> Uuid(t.username), username |-> t.username,
                          email |-> t.email, credits |-> RegisterCredits,
                          password_hash |-> Hash(t.password)]},
                      !.userId = Uuid(t.username),
                      !.username = t.username,
                      !.credits = RegisterCredits], "Registered successfully."), i)

loginFailed(s, i) == Return(writeCommandOutput(s, "Login failed. Please try again."), i)

\* SELECT id, credits, password_hash FROM accounts WHERE username = .. resolved
loginSelected(s, i) ==
  LET t == s.tasks[i]
      user == {a \in s.accounts : a.username = t.username}
  IN IF user = {}
     THEN Return(writeCommandOutput(s, "No account found with this username."), i)
     ELSE Suspend([Out(s, CallBcrypt) EXCEPT !.tasks[i].row = user], i, "loginCompare")

\* a faulty login that adopts the entered username before comparing
loginComparedEarly(s, i) ==
  LET t == s.tasks[i]
      user == CHOOSE a \in t.row : TRUE
  IN IF ~Compare(t.password, user.password_hash)
     THEN Return(writeCommandOutput([s EXCEPT !.username = t.username],
                                    "Invalid password."), i)
     ELSE Return(writeCommandOutput(
            [s EXCEPT !.userId = user.id, !.username = t.username,
                      !.credits = user.credits], "Logged in successfully."), i)

\* bcrypt.compare resolved
loginCompared(s, i) ==
  LET t == s.tasks[i]
      user == CHOOSE a \in t.row : TRUE
  IN IF ~Compare(t.password, user.password_hash)
     THEN Return(writeCommandOutput(s, "Invalid password."), i)
     ELSE Return(writeCommandOutput(
            [s EXCEPT !.userId = user.id, !.username = t.username,
                      !.credits = user.credits], "Logged in successfully."), i)

\* ------------------------------------------------------------------------
\* ClientSession.handleCommand
\* ------------------------------------------------------------------------
\* parseFloat of the /retry argument, in tenths; {} is NaN. As parseFloat does,
\* it reads the longest prefix [+-]digits[.digits] and ignores what follows;
\* fraction digits after the first are dropped (no argument used has any),
\* and exponents and "Infinity" are not read.
ParseFloat(a) ==
  LET digits == "0123456789"
      IsDigit(c) == \E k \in 1..10 : CharAt(digits, k) = c
      DigitVal(c) == (CHOOSE k \in 1..10 : CharAt(digits, k) = c) - 1
      RECURSIVE DigitRun(_)
      DigitRun(p) ==
        IF p <= Len(a) /\ IsDigit(CharAt(a, p)) THEN 1 + DigitRun(p + 1) ELSE 0
      RECURSIVE ValueOf(_)
      ValueOf(d) ==
        IF d = "" THEN 0
        ELSE 10 * ValueOf(SubSeq(d, 1, Len(d) - 1)) + DigitVal(CharAt(d, Len(d)))
      neg == StartsWith(a, "-")
      p == IF neg \/ StartsWith(a, "+") THEN 2 ELSE 1
      n == DigitRun(p)
      f == IF p + n <= Len(a) /\ CharAt(a, p + n) = "." THEN DigitRun(p + n + 1) ELSE 0
      tenths == 10 * ValueOf(SubSeq(a, p, p + n - 1))
                + (IF f > 0 THEN DigitVal(CharAt(a, p + n + 1)) ELSE 0)
  IN IF n + f = 0 THEN {} ELSE {IF neg THEN 0 - tenths ELSE tenths}

Commands ==
  {"/reset", "/history", "/stats", "/clear", "/system", "/retry", "/register",
   "/login", "/char", "/adventure", "/help", "/model", "/balance"}

Pop(seq) == SubSeq(seq, 1, Len(seq) - 1)

\* case "/retry"; the suspended call keeps its local lastUserMessage in arg
retryTemperatureFirst(s, i, args) ==
  LET temp == IF Len(args) > 0 /\ args[1] # "" THEN ParseFloat(args[1]) ELSE {}
      s0 == [s EXCEPT !.temperature =
                        IF \E t \in temp : t >= 0 /\ t <= 20
                        THEN CHOOSE t \in temp : TRUE ELSE @]
  IN IF Len(s.conversation) < 2
     THEN Return(writeCommandOutput(s0, MsgNoRetry), i)
     ELSE LET s1 == [s0 EXCEPT !.conversation = Pop(@)]
              lastUserMessage == s1.conversation[Len(s1.conversation)]
          IN streamResponse(
               [writeCommandOutput(s1, "Retrying last message") EXCEPT
                  !.tasks[i].arg = <<lastUserMessage>>], i, lastUserMessage.content)

retryPositiveOnly(s, i, args) ==
  IF Len(s.conversation) < 2
  THEN Return(writeCommandOutput(s, MsgNoRetry), i)
  ELSE LET temp == IF Len(args) > 0 /\ args[1] # "" THEN ParseFloat(args[1]) ELSE {}
           s1 == [s EXCEPT
                    !.temperature =
                      IF \E t \in temp : t > 0 /\ t <= 20
                      THEN CHOOSE t \in temp : TRUE ELSE @,
                    !.conversation = Pop(@)]
           lastUserMessage == s1.conversation[Len(s1.conversation)]
       IN streamResponse(
            [writeCommandOutput(s1, "Retrying last message") EXCEPT
               !.tasks[i].arg = <<lastUserMessage>>], i, lastUserMessage.content)

retry(s, i, args) ==
  IF Len(s.conversation) < 2
  THEN Return(writeCommandOutput(s, MsgNoRetry), i)
  ELSE LET temp == IF Len(args) > 0 /\ args[1] # "" THEN ParseFloat(args[1]) ELSE {}
           s1 == [s EXCEPT
                    !.temperature =
                      IF \E t \in temp : t >= 0 /\ t <= 20
                      THEN CHOOSE t \in temp : TRUE ELSE @,
                    !.conversation = Pop(@)]
           lastUserMessage == s1.conversation[Len(s1.conversation)]
       IN streamResponse(
            [writeCommandOutput(s1, "Retrying last message") EXCEPT
               !.tasks[i].arg = <<lastUserMessage>>], i, lastUserMessage.content)

\* case "/char": the subcommands that reach storage suspend at their await
char(s, i, args) ==
  IF s.userId = NULL THEN Return(writeCommandOutput(s, MsgCharLogin), i)
  ELSE IF Len(args) = 0 THEN Return(writeCommandOutput(s, "Usage: /char"), i)
  ELSE LET subcommand == args[1]
           subargs == Tail(args)
           call(pc, a) ==
             Suspend([Out(s, CallCharacters) EXCEPT !.tasks[i].arg = a], i, pc)
       IN CASE subcommand = "new" ->
                 IF Len(subargs) < 2
                 THEN Return(writeCommandOutput(s, "Usage: /char new"), i)
                 ELSE call("charNew", <<subargs[1], Join(Tail(subargs))>>)
            [] subcommand = "edit" ->
                 IF Len(subargs) < 2
                 THEN Return(writeCommandOutput(s, "Usage: /char edit"), i)
                 ELSE call("charEdit", <<subargs[1], Join(Tail(subargs))>>)
            [] subcommand = "list" -> call("charList", <<>>)
            [] subcommand = "use" ->
                 IF Len(subargs) # 1
                 THEN Return(writeCommandOutput(s, "Usage: /char use"), i)
                 ELSE call("charUse", <<subargs[1]>>)
            [] subcommand = "clear" ->
                 Return(writeCommandOutput([s EXCEPT !.currentCharacter = {}],
                                           "Cleared current character."), i)
            [] OTHER -> Return(writeCommandOutput(s, "Unknown subcommand."), i)

CharPcs == {"charNew", "charEdit", "charList", "charUse"}

\* whether the statement of task i can succeed: owner_id is a UUID column that
\* references accounts(id), and (owner_id, name) is UNIQUE
charCanSucceed(s, i) ==
  LET t == s.tasks[i]
  IN /\ IsUuid(s.userId)
     /\ t.pc = "charNew" =>
          /\ \E a \in s.accounts : a.id = s.userId
          /\ ~\E c \in s.characters : c.owner_id = s.userId /\ c.name = t.arg[1]

\* the storage call of a /char subcommand resolved
charResolved(s, i) ==
  LET t == s.tasks[i]
      mine(name) == {c \in s.characters : c.owner_id = s.userId /\ c.name = name}
  IN CASE t.pc = "charNew" ->
            Return(writeCommandOutput(
              [s EXCEPT !.characters = @ \cup
                 {[owner_id |-> s.userId, name |-> t.arg[1],
                   system_prompt |-> t.arg[2]]}], "Character created successfully."), i)
       [] t.pc = "charEdit" ->
            IF mine(t.arg[1]) # {}
            THEN Return(writeCommandOutput(
                   [s EXCEPT !.characters =
                      {IF c \in mine(t.arg[1])
                       THEN [c EXCEPT !.system_prompt = t.arg[2]] ELSE c : c \in @}],
                   "Character updated successfully."), i)
            ELSE Return(writeCommandOutput(s, "Character not found."), i)
       [] t.pc = "charList" -> Return(writeCommandOutput(s, "Your characters:"), i)
       [] OTHER ->
            IF mine(t.arg[1]) # {}
            THEN Return(writeCommandOutput(
                   [s EXCEPT !.currentCharacter = mine(t.arg[1])],
                   "Now using character."), i)
            ELSE Return(writeCommandOutput(s, "Character not found."), i)

\* the catch blocks of the /char subcommands
charFailed(s, i) == Return(writeCommandOutput(s, "Failed character operation."), i)

selectModel(s, i, modelId) ==
  LET s1 == [s EXCEPT !.model = modelId]
  IN IF IsAccountUser(s1)
     THEN Suspend(Out(s1, CallAccounts), i, "selectModel")
     ELSE Return(writeCommandOutput(s1, "Model selected."), i)

modelSelected(s, i, ok) ==
  Return(writeCommandOutput(s, IF ok THEN "Model selected."
                               ELSE "Error selecting model."), i)

handleCommand(s, i, cmd) ==
  LET parts == Split(ToLowerCase(Trim(cmd)))
      command == parts[1]
      args == Tail(parts)
  IN CASE command = "/reset" ->
            Return(writeCommandOutput([s EXCEPT !.conversation = <<>>],
                                      "Conversation history cleared."), i)
       [] command = "/history" ->
            Return(writeCommandOutput(s, IF Len(s.conversation) = 0
                                         THEN "No conversation history."
                                         ELSE "Conversation History:"), i)
       [] command = "/stats" -> Return(writeCommandOutput(s, "Session Statistics:"), i)
       [] command = "/clear" -> Return(writeCommandOutput(s, "<clear-screen>"), i)
       [] command = "/system" ->
            IF Len(args) > 0
            THEN Return(writeCommandOutput([s EXCEPT !.systemPrompt = Join(args)],
                                           "System prompt updated."), i)
            ELSE Return(writeCommandOutput(s, "Current system prompt:"), i)
       [] command = "/retry" -> retry(s, i, args)
       [] command = "/register" ->
            IF Len(args) > 0 THEN Return(writeCommandOutput(s, "Usage: /register"), i)
            ELSE handleInteractiveAuth(s, i, "register")
       [] command = "/login" ->
            IF Len(args) > 0 THEN Return(writeCommandOutput(s, "Usage: /login"), i)
            ELSE handleInteractiveAuth(s, i, "login")
       [] command = "/char" -> char(s, i, args)
       [] command = "/adventure" ->
            IF s.isInAdventure
            THEN Return(writeCommandOutput(s, MsgAlreadyAdventure), i)
            ELSE handleAdventure(s, i, "start")
       [] command = "/help" -> Return(writeCommandOutput(s, "Available Commands:"), i)
       [] command = "/model" ->
            IF Len(args) = 0 THEN Return(writeCommandOutput(s, "Available models:"), i)
            ELSE selectModel(s, i, Join(args))
       [] OTHER -> Return(writeCommandOutput(s, "Your current balance is"), i)

\* handleCommand returns false for every other first word
Handled(cmd) == Split(ToLowerCase(Trim(cmd)))[1] \in Commands

\* ------------------------------------------------------------------------
\* ClientSession.handleMessage
\* ------------------------------------------------------------------------
terminateSession(s) == [writeCommandOutput(s, MsgGoodbye) EXCEPT !.ended = TRUE]

handleMessage(s, i, message) ==
  IF ToLowerCase(Trim(message)) = "exit" THEN Return(terminateSession(s), i)
  ELSE IF s.isInAdventure THEN handleAdventureMessage(s, i, message)
  ELSE IF StartsWith(message, "/") /\ Handled(message) THEN handleCommand(s, i, message)
  ELSE streamResponse(s, i, message)

\* a call of an async function from a handler: the new task runs to its first await
Start(s, origin) == [Out(s, Submitted) EXCEPT !.tasks = Append(@, NewTask(origin))]

\* ------------------------------------------------------------------------
\* The raw input handlers
\* ------------------------------------------------------------------------
Insert(buf, pos, input) == Slice(buf, 0, pos) \o input \o SliceFrom(buf, pos)

\* a faulty backspace, removing two characters for one cursor step: the fault
\* that C2_CursorWithinBuffer is there to exclude
RemoveTwo(buf, pos) == Slice(buf, 0, pos - 2) \o SliceFrom(buf, pos)

\* a faulty backspace, removing the character under the cursor
RemoveRight(buf, pos) == Slice(buf, 0, pos) \o SliceFrom(buf, pos + 1)

RemoveLeft(buf, pos) == Slice(buf, 0, pos - 1) \o SliceFrom(buf, pos)

\* the Enter branch hands handleMessage the buffer as typed
lineHandlerUntrimmed(s, input) ==
  CASE input = ETX -> terminateSession(s)
    [] input = ArrowRight ->
         IF s.cursorPos < Len(s.inputBuffer)
         THEN [Out(s, "<redraw>") EXCEPT !.cursorPos = @ + 1]
         ELSE s
    [] input = ArrowLeft ->
         IF s.cursorPos > 0
         THEN [Out(s, "<redraw>") EXCEPT !.cursorPos = @ - 1]
         ELSE s
    [] StartsWith(input, ESC) /\ input \notin {ArrowRight, ArrowLeft} -> s
    [] input = CR ->
         LET s1 == [Out(s, "\r\n") EXCEPT !.inputBuffer = "", !.cursorPos = 0]
         IN handleMessage(Start(s1, "line"), Len(s.tasks) + 1, s.inputBuffer)
    [] input = DEL ->
         IF s.cursorPos > 0
         THEN [Out(s, "<redraw>") EXCEPT !.inputBuffer = RemoveLeft(@, s.cursorPos),
                                         !.cursorPos = @ - 1]
         ELSE s
    [] OTHER ->
         [Out(s, "<redraw>") EXCEPT !.inputBuffer = Insert(@, s.cursorPos, input),
                                    !.cursorPos = @ + Len(input)]

\* the closure setInputHandler installs: the line editor of clientSession.ts
lineHandler(s, input) ==
  CASE input = ETX -> terminateSession(s)
    [] input = ArrowRight ->
         IF s.cursorPos < Len(s.inputBuffer)
         THEN [Out(s, "<redraw>") EXCEPT !.cursorPos = @ + 1] ELSE s
    [] input = ArrowLeft ->
         IF s.cursorPos > 0
         THEN [Out(s, "<redraw>") EXCEPT !.cursorPos = @ - 1] ELSE s
    [] StartsWith(input, ESC) /\ input \notin {ArrowRight, ArrowLeft} -> s
    [] input = CR ->
         LET command == Trim(s.inputBuffer)
             s1 == [Out(s, "\r\n") EXCEPT !.inputBuffer = "", !.cursorPos = 0]
         IN handleMessage(Start(s1, "line"), Len(s.tasks) + 1, command)
    [] input = DEL ->
         IF s.cursorPos > 0
         THEN [Out(s, "<redraw>") EXCEPT
                 !.inputBuffer = RemoveLeft(@, s.cursorPos), !.cursorPos = @ - 1]
         ELSE s
    [] OTHER ->
         [Out(s, "<redraw>") EXCEPT
            !.inputBuffer = Insert(@, s.cursorPos, input),
            !.cursorPos = @ + Len(input)]

\* handleStream's own data handler, reached when session.inputHandler is null
rawHandler(s, input) ==
  CASE StartsWith(input, ESC) ->
         IF input = ArrowRight /\ s.cursorPos < Len(s.buffer)
         THEN [Out(s, ArrowRight) EXCEPT !.cursorPos = @ + 1]
         ELSE IF input = ArrowLeft /\ s.cursorPos > 0
         THEN [Out(s, ArrowLeft) EXCEPT !.cursorPos = @ - 1]
         ELSE s
    [] input = DEL ->
         IF s.cursorPos > 0
         THEN [Out(s, "<BS>") EXCEPT
                 !.buffer = RemoveLeft(@, s.cursorPos), !.cursorPos = @ - 1]
         ELSE s
    [] input = CR ->
         LET trimmedBuffer == Trim(s.buffer)
             s1 == Out(s, "\n")
             i == Len(s.tasks) + 1
         IN IF s1.gameEndChoice
            THEN handleGameEndChoice(Start(s1, "raw"), i, trimmedBuffer)
            ELSE IF ToLowerCase(trimmedBuffer) = "exit"
            THEN [Out(s1, "Goodbye!") EXCEPT !.ended = TRUE]
            ELSE IF trimmedBuffer # ""
            THEN handleMessage(Start(s1, "raw"), i, trimmedBuffer)
            ELSE [writeToStream(s1, "", TRUE) EXCEPT !.buffer = "", !.cursorPos = 0]
    [] OTHER ->
         IF IsPrintableChar(input)
         THEN [Out(s, "<echo>") EXCEPT
                 !.buffer = Insert(@, s.cursorPos, input), !.cursorPos = @ + 1]
         ELSE s

\* the task whose getInput closure is session.inputHandler
DialogTask(s) == CHOOSE i \in 1..Len(s.tasks) : s.tasks[i].pc \in DialogPcs

\* a faulty dispatch that lets the line editor see the chunks of a dialog
onDataLineFirst(s, data) ==
  IF s.inputHandler = "null" THEN rawHandler(s, data) ELSE lineHandler(s, data)

\* stream.on("data"): session.inputHandler if there is one, else handleStream's code
onData(s, data) ==
  CASE s.inputHandler = "line" -> lineHandler(s, data)
    [] s.inputHandler = "dialog" -> dialogHandler(s, DialogTask(s), data)
    [] OTHER -> rawHandler(s, data)

\* ------------------------------------------------------------------------
\* The environment: what the user sends and what the collaborators answer
\* ------------------------------------------------------------------------
A50 == "aaaaaaaaaaaaaaaaaaaaaaaaaaaaaaaaaaaaaaaaaaaaaaaaaa"

\* What one user sends during a session: the lines pasted whole, the lines typed
\* character by character, the characters of free text (an empty line is free
\* text), the buffers entered at each prompt of the auth dialog, and whether the
\* user waits for the handling of a line to finish before submitting the next.
NoFields == [username |-> {}, password |-> {}, email |-> {}]

BobFields == [username |-> {"bob"}, password |-> {"bob@"}, email |-> {}]

Scripts ==
  {[name |-> "edit", patient |-> TRUE,
    pasted |-> {},
    typed |-> {}, free |-> {"a", " "}, empty |-> TRUE, fields |-> NoFields],
   [name |-> "chat", patient |-> FALSE,
    pasted |-> {"hi", "/retry", "/reset", "/model " \o PaidModel, "exit"},
    typed |-> {}, free |-> {}, empty |-> FALSE, fields |-> NoFields],
   [name |-> "retry", patient |-> TRUE,
    pasted |-> {"hi", "/retry", "/retry 0.8", "/retry 0", "/retry 2", "/retry 5",
                "/retry -1", "/retry x", "/retry 1x"},
    typed |-> {}, free |-> {}, empty |-> FALSE, fields |-> NoFields],
   [name |-> "validate", patient |-> TRUE,
    pasted |-> {"/register"},
    typed |-> {}, free |-> {}, empty |-> FALSE,
    fields |-> [username |-> {"al", "amy", "bob@", "amy ", A50, A50 \o "a",
                              A50 \o " "},
                password |-> {"al", "pw1", A50, A50 \o "a"},
                email |-> {"amy", "a@b"}]],
   [name |-> "auth", patient |-> TRUE,
    pasted |-> {"/login", "/register"},
    typed |-> {"/login"}, free |-> {}, empty |-> FALSE,
    fields |-> [username |-> {"bob", "amy"},
                password |-> {"bob@", "pw1"},
                email |-> {"bob@x.io", "a@b"}]],
   [name |-> "adventure", patient |-> TRUE,
    pasted |-> {"/adventure", "exit"},
    typed |-> {"1", "2"}, free |-> {}, empty |-> FALSE, fields |-> NoFields],
   [name |-> "rush", patient |-> FALSE,
    pasted |-> {"/adventure"},
    typed |-> {}, free |-> {}, empty |-> FALSE, fields |-> NoFields],
   [name |-> "broke", patient |-> TRUE,
    pasted |-> {"/model " \o PaidModel, "hi", "/adventure"},
    typed |-> {}, free |-> {}, empty |-> FALSE, fields |-> NoFields],
   [name |-> "member-adventure", patient |-> TRUE,
    pasted |-> {"/login"},
    typed |-> {"/adventure", "1"}, free |-> {}, empty |-> FALSE,
    fields |-> BobFields],
   [name |-> "member-edit", patient |-> TRUE,
    pasted |-> {"/login"},
    typed |-> {}, free |-> {"a"}, empty |-> FALSE, fields |-> BobFields],
   [name |-> "member-chat", patient |-> FALSE,
    pasted |-> {"/login", "hi"},
    typed |-> {"/login"}, free |-> {}, empty |-> FALSE, fields |-> BobFields],
   [name |-> "member-model", patient |-> TRUE,
    pasted |-> {"/login", "/model " \o PaidModel},
    typed |-> {"/login"}, free |-> {}, empty |-> FALSE, fields |-> BobFields],
   [name |-> "member-char", patient |-> TRUE,
    pasted |-> {"/login", "/char new n p", "/char use n", "/char clear", "hi"},
    typed |-> {"/login"}, free |-> {}, empty |-> FALSE, fields |-> BobFields],
   [name |-> "char", patient |-> TRUE,
    pasted |-> {"/char", "/char new n p", "/char edit n p", "/char list",
                "/char use n", "/char clear", "/char zap"},
    typed |-> {}, free |-> {}, empty |-> FALSE, fields |-> NoFields]}

PastedLines == UNION {sc.pasted : sc \in Scripts}

\* the chunks sent at the prompts of the dialog: whole fields, or a field in pieces
DialogChunks ==
  {"a", "al", "amy", "bob", "bob@", "pw1", "a@b", "bob@x.io", "@", " ", A50}

TypedChars ==
  {"/", "l", "o", "g", "i", "n", "a", "d", "v", "e", "t", "u", "r", "1", "2", " "}

Prefixes(L) == UNION {{SubSeq(l, 1, n) : n \in 0..Len(l)} : l \in L}

RECURSIVE FreeTextOf(_, _)
FreeTextOf(chars, n) ==
  IF n = 0 THEN {""} ELSE FreeTextOf(chars, n - 1) \cup
    {t \o c : t \in {u \in FreeTextOf(chars, n - 1) : Len(u) = n - 1}, c \in chars}

FreeText(s) ==
  FreeTextOf(s.script.free, MaxBuf) \ (IF s.script.empty THEN {} ELSE {""})

Typable(s) == Prefixes(s.script.typed) \cup FreeText(s) \cup {""}

Chunks ==
  {ETX, CR, DEL, ArrowUp, ArrowLeft, ArrowRight} \cup PastedLines \cup TypedChars
  \cup DialogChunks

Usages == {{}, {[prompt_tokens |-> 1, completion_tokens |-> 1]}}

\* the tool calls of one final completion
ToolCalls ==
  {{}, {"save_game"}, {"win_game"}, {"lose_game"}, {"save_game", "win_game"}}

StreamPcs == {"create", "deltas"}

Count(s, pcs) == Cardinality({i \in 1..Len(s.tasks) : s.tasks[i].pc \in pcs})

\* the user edits only short free text, submits only whole lines, and sends nothing
\* after the channel ended
Sendable(s, data) ==
  LET active == CASE s.inputHandler = "line" -> s.inputBuffer
                  [] s.inputHandler = "dialog" -> s.tasks[DialogTask(s)].inbuf
                  [] OTHER -> s.buffer
  IN /\ ~s.ended
     /\ data \in {DEL, ArrowUp, ArrowLeft, ArrowRight} =>
          active \in FreeText(s) \/ s.inputHandler = "dialog"
     /\ data = ETX /\ s.inputHandler # "dialog" /\ s.script.patient => s.tasks = <<>>
     /\ data = CR /\ s.inputHandler # "dialog" =>
          /\ active \in FreeText(s) \cup s.script.typed \cup s.script.pasted
          /\ s.script.patient => s.tasks = <<>>
     /\ data \in PastedLines =>
          data \in s.script.pasted /\ active = "" /\ s.inputHandler # "dialog"
     /\ data \in DialogChunks \ TypedChars => s.inputHandler = "dialog"

\* the state stays inside the bounds of the model
Bounded(s) ==
  /\ Len(s.tasks) <= MaxTasks
  /\ Len(s.conversation) + 2 * Count(s, StreamPcs) <= MaxConv
  /\ Len(s.adventureConversation) + Count(s, {"advStream"}) <= MaxConv + 1
  /\ 2 * Count(s, {"advStream", "advSave", "advDelay"}) <= MaxConv + 1
  /\ s.inputBuffer \in Typable(s) \cup s.script.pasted
  /\ s.buffer \in Typable(s)
  /\ \A i \in 1..Len(s.tasks) :
       s.tasks[i].pc \in DialogPcs =>
         s.tasks[i].inbuf \in s.script.fields[s.tasks[i].pc] \cup {""}


\* ------------------------------------------------------------------------
\* Rooms (src/index.ts): several sessions, the registry rooms, the table
\* room_members. A step of this part is one "data", "close" or "error" event
\* of one session, or the resolution of one awaited storage call.
\* ------------------------------------------------------------------------
RoomSessions == {"s1", "s2", "s3", "s4"}

\* ClientSession.userId (and username): s4 has not logged in
UserOf(x) == IF x = "s4" THEN NULL ELSE "u" \o SubSeq(x, 2, 2)

\* the rows of table rooms (id and name are not told apart)
RoomNames == {"a", "b"}

\* the lines each user submits
RoomLines(x) ==
  CASE x = "s1" -> {"/join a", "/join b", "/join zz", "/join", "/leave"}
    [] x = "s2" -> {"/join a", "/leave"}
    [] x = "s3" -> {"/join a", "exit"}
    [] OTHER -> {"/join a"}

Idle == [pc |-> "idle", target |-> NULL, after |-> NULL]

\* the elements of a Set kept in insertion order
Range(seq) == {seq[k] : k \in 1..Len(seq)}

\* stream.write of a session
W(x, text) == [to |-> x, text |-> text]

\* the text of the join and leave announcements
Announcement(x, verb) == UserOf(x) \o " has " \o verb \o " the room."

\* Room.broadcast up to its await of addMessage
Cast(room, text, sender) == SetToBag({[room |-> room, text |-> text, sender |-> sender]})

\* the continuation of the caller of leaveRoom
AfterLeave(x, cr, cs) ==
  IF calls[x].after = "join"
  THEN /\ calls' = [calls EXCEPT ![x].pc = "joinInsert"]
       /\ ev' = {}
       /\ currentRoom' = cr /\ casts' = cs
  ELSE /\ calls' = [calls EXCEPT ![x] = Idle]
       /\ ev' = {W(x, "Left room")}
       /\ currentRoom' = cr /\ casts' = cs

\* Enter with a line in the buffer: handleMessage, handleCommand to its first
\* await. A user waits for the command to return before the next line, and at
\* most MaxCalls commands are in flight.
RoomSubmit(x, line) ==
  LET parts == Split(ToLowerCase(Trim(line)))
      command == parts[1]
      args == Tail(parts)
      say(text) == ev' = {W(x, text)} /\ UNCHANGED calls
  IN /\ x \notin closed
     /\ calls[x] = Idle
     /\ Cardinality({y \in RoomSessions : calls[y] # Idle}) < MaxCalls
     /\ line \in RoomLines(x) \ {"exit"}
     /\ UNCHANGED <<sessionVars, currentRoom, members, room_members, casts, closed>>
     /\ IF UserOf(x) = NULL THEN say("You need to be logged in")
        ELSE IF command = "/join"
        THEN IF Len(args) < 1 THEN say("Usage: /join <room_name>")
             ELSE /\ calls' = [calls EXCEPT ![x] = [pc |-> "joinSelect", target |-> Join(args),
                                                    after |-> "join"]]
                  /\ ev' = {}
        ELSE IF currentRoom[x] = NULL THEN say("You are not in any room.")
             ELSE /\ calls' = [calls EXCEPT ![x] = [pc |-> "leaveDelete",
                                                    target |-> currentRoom[x],
                                                    after |-> "leave"]]
                  /\ ev' = {}

\* SELECT id, name FROM rooms resolves or throws
JoinSelected(x, ok) ==
  /\ calls[x].pc = "joinSelect"
  /\ UNCHANGED <<sessionVars, currentRoom, members, room_members, casts, closed>>
  /\ IF ~ok
     THEN calls' = [calls EXCEPT ![x] = Idle] /\ ev' = {W(x, "Failed to join room.")}
     ELSE IF calls[x].target \notin RoomNames
     THEN calls' = [calls EXCEPT ![x] = Idle] /\ ev' = {W(x, "Room not found.")}
     ELSE /\ calls' = [calls EXCEPT ![x].pc = IF currentRoom[x] # NULL THEN "leaveDelete"
                                               ELSE "joinInsert"]
          /\ ev' = {}

\* leaveRoom: DELETE FROM room_members resolves, or throws into leaveRoom's catch
LeaveDeleted(x, ok) ==
  /\ calls[x].pc = "leaveDelete"
  /\ UNCHANGED <<sessionVars, closed>>
  /\ IF ok
     THEN /\ room_members' = room_members \ {<<currentRoom[x], UserOf(x)>>}
          /\ members' = [members EXCEPT ![currentRoom[x]] =
                                          SelectSeq(@, LAMBDA m : m # x)]
          /\ calls' = [calls EXCEPT ![x].pc = "leaveAnnounce"]
          /\ ev' = {}
          /\ UNCHANGED <<currentRoom, casts>>
     ELSE /\ UNCHANGED <<room_members, members>>
          /\ AfterLeave(x, currentRoom, casts)

\* leaveRoom: addMessage returned: broadcast is called and not awaited
LeaveAnnounced(x) ==
  /\ calls[x].pc = "leaveAnnounce"
  /\ BagCardinality(casts) < MaxCasts
  /\ UNCHANGED <<sessionVars, closed, room_members, members>>
  /\ AfterLeave(x, [currentRoom EXCEPT ![x] = NULL],
                casts (+) Cast(currentRoom[x], Announcement(x, "left"), x))

\* INSERT INTO room_members resolves or throws
JoinInserted(x, ok) ==
  /\ calls[x].pc = "joinInsert"
  /\ UNCHANGED <<sessionVars, closed, casts>>
  /\ IF ok
     THEN /\ room_members' = room_members \cup {<<calls[x].target, UserOf(x)>>}
          /\ currentRoom' = [currentRoom EXCEPT ![x] = calls[x].target]
          /\ members' = [members EXCEPT ![calls[x].target] =
                                          IF x \in Range(@) THEN @ ELSE Append(@, x)]
          /\ calls' = [calls EXCEPT ![x].pc = "joinRecent"]
          /\ ev' = {}
     ELSE /\ UNCHANGED <<room_members, currentRoom, members>>
          /\ calls' = [calls EXCEPT ![x] = Idle]
          /\ ev' = {W(x, "Failed to join room.")}

\* getRecentMessages returned (it catches its own errors), with some rows or none
JoinRecent(x, some) ==
  /\ calls[x].pc = "joinRecent"
  /\ UNCHANGED <<sessionVars, closed, casts, room_members, currentRoom, members>>
  /\ calls' = [calls EXCEPT ![x].pc = "joinAnnounce"]
  /\ ev' = {W(x, "Recent messages:") : b \in {some} \ {FALSE}} \cup {W(x, "Joined room")}

\* a faulty /join that announces before getRecentMessages has returned
JoinAnnouncedEarly(x) ==
  /\ calls[x].pc \in {"joinRecent", "joinAnnounce"}
  /\ BagCardinality(casts) < MaxCasts
  /\ UNCHANGED <<sessionVars, closed, room_members, currentRoom, members>>
  /\ casts' = casts (+) Cast(currentRoom[x], Announcement(x, "joined"), x)
  /\ calls' = [calls EXCEPT ![x] = IF calls[x].pc = "joinRecent" THEN @ ELSE Idle]
  /\ ev' = {}

\* /join: addMessage returned: broadcast is called and not awaited
JoinAnnounced(x) ==
  /\ calls[x].pc = "joinAnnounce"
  /\ BagCardinality(casts) < MaxCasts
  /\ UNCHANGED <<sessionVars, closed, room_members, currentRoom, members>>
  /\ casts' = casts (+) Cast(currentRoom[x], Announcement(x, "joined"), x)
  /\ calls' = [calls EXCEPT ![x] = Idle]
  /\ ev' = {}

\* Room.broadcast: its addMessage returned, members.forEach writes to the
\* members in insertion order. The write to a member whose channel has closed
\* either is discarded by the channel or throws: thrown = 0 when no write
\* throws, else the position of the member whose write throws, which ends
\* forEach there.
Delivered(c, thrown) ==
  LET ms == members[c.room]
      last == IF thrown = 0 THEN Len(ms) ELSE thrown - 1
  IN /\ BagIn(c, casts)
     /\ thrown # 0 => /\ thrown \in 1..Len(ms)
                      /\ ms[thrown] \in closed \ {c.sender}
     /\ casts' = casts (-) SetToBag({c})
     /\ ev' = {W(ms[k], "[" \o c.room \o "] " \o c.text) :
                 k \in {j \in 1..last : ms[j] # c.sender}}
  /\ UNCHANGED <<sessionVars, closed, room_members, currentRoom, members, calls>>

\* stream.on("close") and stream.on("error"): sessions.delete(sessionId); the
\* channel that drops is that of s2
Closed(x) ==
  /\ x = "s2"
  /\ x \notin closed
  /\ closed' = closed \cup {x}
  /\ ev' = {}
  /\ UNCHANGED <<sessionVars, casts, room_members, currentRoom, members, calls>>

\* Enter with "exit" in the buffer: goodbye, sessions.delete, stream.end()
Exited(x) ==
  /\ "exit" \in RoomLines(x)
  /\ x \notin closed
  /\ closed' = closed \cup {x}
  /\ ev' = {W(x, "Goodbye!")}
  /\ UNCHANGED <<sessionVars, casts, room_members, currentRoom, members, calls>>

\* ------------------------------------------------------------------------
\* The delta loop of handleAdventureMessage (src/adventureMode.ts)
\* ------------------------------------------------------------------------
\* String.prototype.split("\n")
RECURSIVE SplitLines(_)
SplitLines(s) ==
  IF ~Includes(s, "\n") THEN <<s>>
  ELSE LET i == CHOOSE k \in 1..Len(s) :
                   CharAt(s, k) = "\n" /\ \A j \in 1..(k - 1) : CharAt(s, j) # "\n"
       IN <<SubSeq(s, 1, i - 1)>> \o SplitLines(SubSeq(s, i + 1, Len(s)))

\* the triple-backtick marker; a backtick is written ~, the one character of
\* these strings that stands for another
Fence == "~~~"

\* no second session
NoPeer == NULL

\* let fullResponse = ""; let isFirstChunk = true; let buffer = "";
\* let inCodeBlock = false; pc is "for" while the loop awaits the next chunk
TurnStart ==
  [buffer |-> "", inCodeBlock |-> FALSE, isFirstChunk |-> TRUE, fullResponse |-> "",
   pc |-> "for", out |-> <<>>]

\* the body of the loop for await (const chunk of stream), for one chunk; out is what
\* this iteration wrote, in order
onChunk(t, content) ==
  IF content = "" THEN [t EXCEPT !.out = <<>>]
  ELSE
    LET buf == t.buffer \o content
        inCode == IF Includes(buf, Fence) THEN ~t.inCodeBlock ELSE t.inCodeBlock
        parts == SplitLines(buf)
        lines == SubSeq(parts, 1, Len(parts) - 1)
        write(k) == IF k = 1 /\ t.isFirstChunk THEN <<"\r" \o lines[k]>>
                    ELSE <<"\r\n", "\r" \o lines[k]>>
        RECURSIVE writes(_)
        writes(k) == IF k > Len(lines) THEN <<>> ELSE write(k) \o writes(k + 1)
    IN IF Includes(buf, "\n") /\ ~inCode
       THEN [t EXCEPT !.buffer = parts[Len(parts)], !.inCodeBlock = inCode,
                      !.isFirstChunk = FALSE,
                      !.fullResponse = @ \o content, !.out = writes(1)]
       ELSE [t EXCEPT !.buffer = buf, !.inCodeBlock = inCode,
                      !.fullResponse = @ \o content, !.out = <<>>]

\* "Flush any remaining buffer", after the loop
flushRemaining(t) ==
  [t EXCEPT !.pc = "flushed",
            !.out = IF t.buffer = "" THEN <<>>
                    ELSE IF t.isFirstChunk THEN <<"\r" \o t.buffer>>
                    ELSE <<"\r\n", "\r" \o t.buffer>>]

\* ------------------------------------------------------------------------
\* Initial state: handleStream has built the guest session
\* ------------------------------------------------------------------------
Init ==
  /\ inputHandler = "line"
  /\ inputBuffer = ""
  /\ buffer = ""
  /\ cursorPos = 0
  /\ conversation = <<>>
  /\ credits = GuestCredits
  /\ model = DefaultModel
  /\ systemPrompt = "You are a helpful AI assistant"
  /\ temperature = 10
  /\ userId = ClientIP
  /\ username = "guest"
  /\ currentCharacter = {}
  /\ isInAdventure = FALSE
  /\ gameEndChoice = FALSE
  /\ adventureConversation = <<>>
  /\ guestCredits = GuestCredits
  /\ accounts = InitAccounts
  /\ characters = {}
  /\ gameSaves = {}
  /\ cachedModelList = Catalog
  /\ tasks = <<>>
  /\ ended = FALSE
  /\ script \in Scripts
  /\ ev = {"welcome"}
  /\ currentRoom = [x \in RoomSessions |-> NULL]
  /\ members = [r \in RoomNames |-> <<>>]
  /\ room_members = {}
  /\ calls = [x \in RoomSessions |-> Idle]
  /\ casts = EmptyBag
  /\ closed = {}
  /\ turn = TurnStart
  /\ peer = NoPeer

\* ------------------------------------------------------------------------
\* Actions: one per event of the event loop
\* ------------------------------------------------------------------------
At(i, pcs) == i \in 1..Len(tasks) /\ tasks[i].pc \in pcs

\* the channel emits "data"
Data(data) ==
  /\ Sendable(St, data)
  /\ Bounded(onData(St, data))
  /\ Set(onData(St, data))

\* openai.chat.completions.create resolves
GenerationOpened(i) == At(i, {"create"}) /\ Set(streamOpened(St, i))

\* the delta sequence ends, with or without a usage record
GenerationCompleted(i, usage) == At(i, {"deltas"}) /\ Set(streamCompleted(St, i, usage))

\* the generation collaborator throws, before or while streaming
GenerationFailed(i) == At(i, StreamPcs) /\ Set(streamCatch(St, i))

\* updateCredits' UPDATE resolves or throws
CreditsUpdated(i) == At(i, {"updateCredits"}) /\ Set(creditsUpdated(St, i))

CreditsUpdateFailed(i) == At(i, {"updateCredits"}) /\ Set(streamCatch(St, i))

\* the register dialog's storage and bcrypt calls
RegisterSelected(i) == At(i, {"regSelect"}) /\ Set(regSelected(St, i))

RegisterHashed(i) == At(i, {"regHash"}) /\ Set(regHashed(St, i))

RegisterInserted(i) == At(i, {"regInsert"}) /\ Set(regInserted(St, i))

RegisterFailed(i) ==
  At(i, {"regSelect", "regHash", "regInsert"}) /\ Set(registrationFailed(St, i))

\* the login dialog's storage and bcrypt calls
LoginSelected(i) == At(i, {"loginSelect"}) /\ Set(loginSelected(St, i))

LoginCompared(i) == At(i, {"loginCompare"}) /\ Set(loginCompared(St, i))

LoginFailed(i) == At(i, {"loginSelect", "loginCompare"}) /\ Set(loginFailed(St, i))

\* the storage call of /char new, edit, list or use
CharacterResolved(i) ==
  At(i, CharPcs) /\ charCanSucceed(St, i) /\ Set(charResolved(St, i))

CharacterFailed(i) == At(i, CharPcs) /\ Set(charFailed(St, i))

\* selectModel's UPDATE
ModelSelected(i, ok) == At(i, {"selectModel"}) /\ Set(modelSelected(St, i, ok))

\* an adventure turn's stream and final completion
AdventureCompleted(i, tools) ==
  At(i, {"advStream"}) /\ Set(adventureCompleted(St, i, tools))

AdventureFailed(i) == At(i, {"advStream"}) /\ Set(adventureCatch(St, i))

\* saveGameProgress' upsert: user_id references accounts(id)
GameSaved(i, ok) ==
  /\ At(i, {"advSave"})
  /\ ok => \E a \in accounts : a.id = tasks[i].arg[1]
  /\ Set(gameSaved(St, i, ok))

\* the 500 ms timer before the end-of-game menu
AdventureDelayElapsed(i) == At(i, {"advDelay"}) /\ Set(adventureEnded(St, i))

Next ==
  \/ \E data \in Chunks : Data(data)
  \/ \E i \in 1..MaxTasks :
       \/ GenerationOpened(i)
       \/ \E usage \in Usages : GenerationCompleted(i, usage)
       \/ GenerationFailed(i)
       \/ CreditsUpdated(i)
       \/ CreditsUpdateFailed(i)
       \/ RegisterSelected(i)
       \/ RegisterHashed(i)
       \/ RegisterInserted(i)
       \/ RegisterFailed(i)
       \/ LoginSelected(i)
       \/ LoginCompared(i)
       \/ LoginFailed(i)
       \/ CharacterResolved(i)
       \/ CharacterFailed(i)
       \/ \E ok \in BOOLEAN : ModelSelected(i, ok)
       \/ \E tools \in ToolCalls : AdventureCompleted(i, tools)
       \/ AdventureFailed(i)
       \/ \E ok \in BOOLEAN : GameSaved(i, ok)
       \/ AdventureDelayElapsed(i)

Spec == Init /\ [][Next]_vars

\* ------------------------------------------------------------------------
\* Charging one request: calculateRequestCost and the debit of streamResponse
\* over a range of model lists, selected models, balances and usage records.
\* Money is counted here in units of 0.0000005 USD, half the granularity of
\* the prices, so that the multiplication by PROFIT_RATE = 3/2 is exact.
\* ------------------------------------------------------------------------
PricedModel == "m/priced"

\* the lists the provider may return, by the pricing {prompt, completion} of
\* PricedModel: free, 0.000001 / 0.000002 USD, 0.000002 / 0.000002 USD, and a
\* negative pricing (the list is used as received: parseFloat reads the sign)
CostCatalogs ==
  {{[id |-> DefaultModel, prompt |-> 0, completion |-> 0],
    [id |-> PricedModel, prompt |-> pr[1], completion |-> pr[2]]} :
     pr \in {<<0, 0>>, <<2, 4>>, <<4, 4>>, <<0 - 2, 0 - 2>>}}

CostUsages ==
  {{}} \cup {{[prompt_tokens |-> u[1], completion_tokens |-> u[2]]} :
               u \in {<<1000, 500>>, <<1, 1>>, <<0, 0>>}}

\* a guest session whose message "hi" has just been sent to streamResponse; its
\* model is in the list or was selected by /model without being in it; its
\* balance is 0.1 USD (a guest's allowance), 0.003 USD or 0.000001 USD
CostInit ==
  \E list \in CostCatalogs, m \in {PricedModel, "m/unlisted"}, c \in {200000, 6000, 2} :
    LET s0 == [inputHandler |-> "line", inputBuffer |-> "", buffer |-> "",
               cursorPos |-> 0, conversation |-> <<>>, credits |-> c, model |-> m,
               systemPrompt |-> "You are a helpful AI assistant", temperature |-> 10,
               userId |-> ClientIP, username |-> "guest", currentCharacter |-> {},
               isInAdventure |-> FALSE, gameEndChoice |-> FALSE,
               adventureConversation |-> <<>>, guestCredits |-> c,
               accounts |-> InitAccounts, characters |-> {}, gameSaves |-> {},
               cachedModelList |-> list, tasks |-> <<>>, ended |-> FALSE,
               script |-> CHOOSE sc \in Scripts : sc.name = "chat", ev |-> {}]
        s == handleMessage(Start(s0, "line"), 1, "hi")
    IN /\ inputHandler = s.inputHandler
       /\ inputBuffer = s.inputBuffer
       /\ buffer = s.buffer
       /\ cursorPos = s.cursorPos
       /\ conversation = s.conversation
       /\ credits = s.credits
       /\ model = s.model
       /\ systemPrompt = s.systemPrompt
       /\ temperature = s.temperature
       /\ userId = s.userId
       /\ username = s.username
       /\ currentCharacter = s.currentCharacter
       /\ isInAdventure = s.isInAdventure
       /\ gameEndChoice = s.gameEndChoice
       /\ adventureConversation = s.adventureConversation
       /\ guestCredits = s.guestCredits
       /\ accounts = s.accounts
       /\ characters = s.characters
       /\ gameSaves = s.gameSaves
       /\ cachedModelList = s.cachedModelList
       /\ tasks = s.tasks
       /\ ended = s.ended
       /\ script = s.script
       /\ ev = s.ev
       /\ currentRoom = [x \in RoomSessions |-> NULL]
       /\ members = [r \in RoomNames |-> <<>>]
       /\ room_members = {}
       /\ calls = [x \in RoomSessions |-> Idle]
       /\ casts = EmptyBag
       /\ closed = {}
       /\ turn = TurnStart
       /\ peer = NoPeer

CostNext ==
  \/ GenerationOpened(1)
  \/ \E usage \in CostUsages : GenerationCompleted(1, usage)
  \/ GenerationFailed(1)

CostSpec == CostInit /\ [][CostNext]_vars

\* ------------------------------------------------------------------------
\* A logged-in player: the session as /login leaves it for the account bob,
\* whose user submits lines without waiting for the turn in progress
\* ------------------------------------------------------------------------
MemberInit ==
  /\ inputHandler = "null"
  /\ inputBuffer = ""
  /\ buffer = ""
  /\ cursorPos = 0
  /\ conversation = <<>>
  /\ \E a \in InitAccounts :
       /\ a.username = "bob"
       /\ userId = a.id
       /\ username = a.username
       /\ credits = a.credits
  /\ model = DefaultModel
  /\ systemPrompt = "You are a helpful AI assistant"
  /\ temperature = 10
  /\ currentCharacter = {}
  /\ isInAdventure = FALSE
  /\ gameEndChoice = FALSE
  /\ adventureConversation = <<>>
  /\ guestCredits = GuestCredits
  /\ accounts = InitAccounts
  /\ characters = {}
  /\ gameSaves = {}
  /\ cachedModelList = Catalog
  /\ tasks = <<>>
  /\ ended = FALSE
  /\ script = [name |-> "member-rush", patient |-> FALSE, pasted |-> {},
               typed |-> {"/adventure"}, free |-> {}, empty |-> FALSE,
               fields |-> NoFields]
  /\ ev = {"Logged in successfully."}
  /\ currentRoom = [x \in RoomSessions |-> NULL]
  /\ members = [r \in RoomNames |-> <<>>]
  /\ room_members = {}
  /\ calls = [x \in RoomSessions |-> Idle]
  /\ casts = EmptyBag
  /\ closed = {}
  /\ turn = TurnStart
  /\ peer = NoPeer

MemberNext ==
  \/ \E data \in Chunks : Data(data)
  \/ \E i \in 1..MaxTasks :
       \/ \E tools \in ToolCalls : AdventureCompleted(i, tools)
       \/ AdventureFailed(i)
       \/ \E ok \in BOOLEAN : GameSaved(i, ok)
       \/ AdventureDelayElapsed(i)

MemberSpec == MemberInit /\ [][MemberNext]_vars

\* ------------------------------------------------------------------------
\* Two sessions on the same storage: the session of the variables above and
\* the session peer, each with its own ClientSession fields, sharing the map
\* guestCredits (same client IP) and the tables. Each has a chat message in
\* flight under the paid model, as two guests or as two logins of bob, or each
\* has just entered the fields of /register with the same username.
\* ------------------------------------------------------------------------
Session(uid, uname, c, handler) ==
  [inputHandler |-> handler, inputBuffer |-> "", buffer |-> "", cursorPos |-> 0,
   conversation |-> <<>>, credits |-> c, model |-> PaidModel,
   systemPrompt |-> "You are a helpful AI assistant", temperature |-> 10,
   userId |-> uid, username |-> uname, currentCharacter |-> {},
   isInAdventure |-> FALSE, gameEndChoice |-> FALSE, adventureConversation |-> <<>>,
   guestCredits |-> GuestCredits, accounts |-> InitAccounts, characters |-> {},
   gameSaves |-> {}, cachedModelList |-> Catalog, tasks |-> <<>>, ended |-> FALSE,
   script |-> CHOOSE sc \in Scripts : sc.name = "chat", ev |-> {}]

RegName == "amy"

\* the session has entered the fields of /register and awaits its SELECT
Registering(s, password, email) ==
  [s EXCEPT !.inputHandler = "null",
            !.tasks = <<[NewTask("line") EXCEPT
                           !.pc = "regSelect", !.mode = "register",
                           !.username = RegName, !.password = password,
                           !.email = email, !.inbuf = email]>>]

PairStarts ==
  LET guest == Session(ClientIP, "guest", GuestCredits, "line")
      member == CHOOSE a \in InitAccounts : a.username = "bob"
      bob == Session(member.id, member.username, member.credits, "null")
  IN {<<handleMessage(Start(guest, "line"), 1, "hi"),
        handleMessage(Start(guest, "line"), 1, "hi")>>,
      <<handleMessage(Start(bob, "raw"), 1, "hi"),
        handleMessage(Start(bob, "raw"), 1, "hi")>>,
      <<Registering(guest, "pw1", "a@b"), Registering(guest, "pw2", "amy@x.io")>>,
      <<Registering(guest, "pw1", "a@b"), Registering(guest, "pw2", "a@b")>>}

\* the fields of a session that are its own
Local(s) ==
  [s EXCEPT !.guestCredits = 0, !.accounts = {}, !.characters = {}, !.gameSaves = {},
            !.ev = {}]

\* the second session as it finds the storage
PeerSt ==
  [peer EXCEPT !.guestCredits = guestCredits, !.accounts = accounts,
               !.characters = characters, !.gameSaves = gameSaves]

PeerSet(s) ==
  /\ peer' = Local(s)
  /\ guestCredits' = s.guestCredits
  /\ accounts' = s.accounts
  /\ characters' = s.characters
  /\ gameSaves' = s.gameSaves
  /\ ev' = s.ev
  /\ UNCHANGED <<inputHandler, inputBuffer, buffer, cursorPos, conversation, credits,
                 model, systemPrompt, temperature, userId, username, currentCharacter,
                 isInAdventure, gameEndChoice, adventureConversation, cachedModelList,
                 tasks, ended, script, turn, roomVars>>

PeerAt(pcs) == Len(peer.tasks) = 1 /\ peer.tasks[1].pc \in pcs

\* the fields of the session are those of s, and no room command has run
Holds(s) ==
  /\ inputHandler = s.inputHandler
  /\ inputBuffer = s.inputBuffer
  /\ buffer = s.buffer
  /\ cursorPos = s.cursorPos
  /\ conversation = s.conversation
  /\ credits = s.credits
  /\ model = s.model
  /\ systemPrompt = s.systemPrompt
  /\ temperature = s.temperature
  /\ userId = s.userId
  /\ username = s.username
  /\ currentCharacter = s.currentCharacter
  /\ isInAdventure = s.isInAdventure
  /\ gameEndChoice = s.gameEndChoice
  /\ adventureConversation = s.adventureConversation
  /\ guestCredits = s.guestCredits
  /\ accounts = s.accounts
  /\ characters = s.characters
  /\ gameSaves = s.gameSaves
  /\ cachedModelList = s.cachedModelList
  /\ tasks = s.tasks
  /\ ended = s.ended
  /\ script = s.script
  /\ currentRoom = [x \in RoomSessions |-> NULL]
  /\ room_members = {}
  /\ calls = [x \in RoomSessions |-> Idle]
  /\ casts = EmptyBag
  /\ closed = {}
  /\ turn = TurnStart

PairInit ==
  \E pr \in PairStarts :
    /\ Holds(pr[1])
    /\ ev = pr[1].ev \cup pr[2].ev
    /\ members = [r \in RoomNames |-> <<>>]
    /\ peer = Local(pr[2])

\* the steps of the second session
PeerGenerationOpened == PeerAt({"create"}) /\ PeerSet(streamOpened(PeerSt, 1))

PeerGenerationCompleted(usage) ==
  PeerAt({"deltas"}) /\ PeerSet(streamCompleted(PeerSt, 1, usage))

PeerGenerationFailed == PeerAt(StreamPcs) /\ PeerSet(streamCatch(PeerSt, 1))

PeerCreditsUpdated == PeerAt({"updateCredits"}) /\ PeerSet(creditsUpdated(PeerSt, 1))

PeerRegisterSelected == PeerAt({"regSelect"}) /\ PeerSet(regSelected(PeerSt, 1))

PeerRegisterHashed == PeerAt({"regHash"}) /\ PeerSet(regHashed(PeerSt, 1))

PeerRegisterInserted == PeerAt({"regInsert"}) /\ PeerSet(regInserted(PeerSt, 1))

\* storage and bcrypt answer every call; the generation collaborator may throw
PairNext ==
  \/ GenerationOpened(1)
  \/ \E usage \in Usages : GenerationCompleted(1, usage)
  \/ GenerationFailed(1)
  \/ CreditsUpdated(1)
  \/ RegisterSelected(1)
  \/ RegisterHashed(1)
  \/ RegisterInserted(1)
  \/ PeerGenerationOpened
  \/ \E usage \in Usages : PeerGenerationCompleted(usage)
  \/ PeerGenerationFailed
  \/ PeerCreditsUpdated
  \/ PeerRegisterSelected
  \/ PeerRegisterHashed
  \/ PeerRegisterInserted

PairSpec == PairInit /\ [][PairNext]_vars

\* ------------------------------------------------------------------------
\* The delta loop of an adventure turn on its own
\* ------------------------------------------------------------------------
MaxResponse == 6

\* delta.content of a chunk: absent, prose, a line end, a fence or a part of one
Deltas == {"", "a", "\n", "a\n", "~~~", "~", "~~"}

\* the stream yields one more chunk
Chunk(content) ==
  /\ turn.pc = "for"
  /\ Len(turn.fullResponse) + Len(content) <= MaxResponse
  /\ turn' = onChunk(turn, content)
  /\ ev' = Range(turn'.out)
  /\ UNCHANGED <<inputHandler, inputBuffer, buffer, cursorPos, conversation, credits,
                 model, systemPrompt, temperature, userId, username, currentCharacter,
                 isInAdventure, gameEndChoice, adventureConversation, guestCredits,
                 accounts, characters, gameSaves, cachedModelList, tasks, ended, script,
                 peer, roomVars>>

\* the stream is exhausted
StreamEnded ==
  /\ turn.pc = "for"
  /\ turn' = flushRemaining(turn)
  /\ ev' = Range(turn'.out)
  /\ UNCHANGED <<inputHandler, inputBuffer, buffer, cursorPos, conversation, credits,
                 model, systemPrompt, temperature, userId, username, currentCharacter,
                 isInAdventure, gameEndChoice, adventureConversation, guestCredits,
                 accounts, characters, gameSaves, cachedModelList, tasks, ended, script,
                 peer, roomVars>>

TurnInit == Init /\ script.name = "chat"

TurnNext ==
  \/ \E content \in Deltas : Chunk(content)
  \/ StreamEnded

TurnSpec == TurnInit /\ [][TurnNext]_vars

\* ------------------------------------------------------------------------
\* The rooms of src/index.ts on their own
\* ------------------------------------------------------------------------
RoomInit == Init /\ script.name = "chat"

RoomNext ==
  \/ \E x \in RoomSessions :
       \/ \E line \in RoomLines(x) \ {"exit"} : RoomSubmit(x, line)
       \/ \E ok \in BOOLEAN : JoinSelected(x, ok)
       \/ \E ok \in BOOLEAN : LeaveDeleted(x, ok)
       \/ LeaveAnnounced(x)
       \/ \E ok \in BOOLEAN : JoinInserted(x, ok)
       \/ \E some \in BOOLEAN : JoinRecent(x, some)
       \/ JoinAnnounced(x)
       \/ Closed(x)
       \/ Exited(x)
  \/ \E c \in BagToSet(casts) : \E thrown \in 0..Cardinality(RoomSessions) :
       Delivered(c, thrown)

RoomSpec == RoomInit /\ [][RoomNext]_vars

\* ------------------------------------------------------------------------
\* The rooms of src/unnamed/part_001 on their own. Its /join builds a Room
\* object of its own (new RoomImpl) instead of looking one up in a registry,
\* so in this part members maps a session to the members of the object its
\* currentRoom refers to. Each user joins room a once and then talks.
\* ------------------------------------------------------------------------
Hello == "hello"

ChatLines(x) == IF currentRoom[x] = NULL THEN {"/join a"} ELSE {Hello}

\* Enter with a line in the buffer: handleMessage to its first await, in
\* handleCommand's /join or in the Room.broadcast it awaits for a plain line
ChatSubmit(x, line) ==
  /\ x \notin closed
  /\ calls[x] = Idle
  /\ Cardinality({y \in RoomSessions : calls[y] # Idle}) < MaxCalls
  /\ line \in ChatLines(x)
  /\ UNCHANGED <<sessionVars, currentRoom, members, room_members, closed>>
  /\ IF StartsWith(line, "/")
     THEN /\ UNCHANGED casts
          /\ IF UserOf(x) = NULL
             THEN ev' = {W(x, "You need to be logged in")} /\ UNCHANGED calls
             ELSE /\ calls' = [calls EXCEPT ![x] =
                                 [pc |-> "joinSelect", target |-> Join(Tail(Split(line))),
                                  after |-> "join"]]
                  /\ ev' = {}
     ELSE /\ BagCardinality(casts) < MaxCasts
          /\ casts' = casts (+) Cast(currentRoom[x], line, x)
          /\ calls' = [calls EXCEPT ![x].pc = "broadcast"]
          /\ ev' = {}

\* INSERT INTO room_members resolves or throws; then
\* this.currentRoom = new RoomImpl(..); this.currentRoom.addMember(this)
OwnRoomJoined(x, ok) ==
  /\ calls[x].pc = "joinInsert"
  /\ UNCHANGED <<sessionVars, closed, casts>>
  /\ IF ok
     THEN /\ room_members' = room_members \cup {<<calls[x].target, UserOf(x)>>}
          /\ currentRoom' = [currentRoom EXCEPT ![x] = calls[x].target]
          /\ members' = [members EXCEPT ![x] = <<x>>]
          /\ calls' = [calls EXCEPT ![x].pc = "joinRecent"]
          /\ ev' = {}
     ELSE /\ UNCHANGED <<room_members, currentRoom, members>>
          /\ calls' = [calls EXCEPT ![x] = Idle]
          /\ ev' = {W(x, "Failed to join room.")}

\* Room.broadcast of the sender's own object: its addMessage returned and
\* members.forEach writes; handleMessage, which awaited it, writes the prompt
OwnRoomDelivered(c, thrown) ==
  LET ms == members[c.sender]
      last == IF thrown = 0 THEN Len(ms) ELSE thrown - 1
      awaited == c.text # Announcement(c.sender, "joined")
  IN /\ BagIn(c, casts)
     /\ thrown # 0 => /\ thrown \in 1..Len(ms)
                      /\ ms[thrown] \in closed \ {c.sender}
     /\ casts' = casts (-) SetToBag({c})
     /\ calls' = IF awaited THEN [calls EXCEPT ![c.sender] = Idle] ELSE calls
     /\ ev' = {W(ms[k], "[" \o c.room \o "] " \o c.text) :
                 k \in {j \in 1..last : ms[j] # c.sender}}
              \cup {W(c.sender, Prompt) : b \in {awaited /\ thrown = 0} \ {FALSE}}
     /\ UNCHANGED <<sessionVars, closed, room_members, currentRoom, members>>

ChatInit ==
  /\ Holds([Session(ClientIP, "guest", GuestCredits, "line") EXCEPT
              !.model = DefaultModel])
  /\ ev = {"welcome"}
  /\ members = [x \in RoomSessions |-> <<>>]
  /\ peer = NoPeer

ChatNext ==
  \/ \E x \in RoomSessions :
       \/ \E line \in ChatLines(x) : ChatSubmit(x, line)
       \/ \E ok \in BOOLEAN : JoinSelected(x, ok)
       \/ \E ok \in BOOLEAN : OwnRoomJoined(x, ok)
       \/ \E some \in BOOLEAN : JoinRecent(x, some)
       \/ JoinAnnounced(x)
  \/ \E c \in BagToSet(casts) : \E thrown \in 0..Cardinality(RoomSessions) :
       OwnRoomDelivered(c, thrown)

ChatSpec == ChatInit /\ [][ChatNext]_vars

\* ------------------------------------------------------------------------
\* Properties
\* ------------------------------------------------------------------------
\* the line an Enter submits in this state: the trimmed buffer of the active editor
Line == Trim(IF inputHandler = "line" THEN inputBuffer ELSE buffer)

\* an Enter of this step submitted a line that handleMessage receives
ToHandleMessage == Submitted \in ev' /\ ~(inputHandler = "null" /\ gameEndChoice)

\* ... and handleMessage dispatches it to handleCommand
ToHandleCommand ==
  /\ ToHandleMessage
  /\ ToLowerCase(Line) # "exit"
  /\ ~isInAdventure
  /\ StartsWith(Line, "/") /\ Handled(Line)

\* ... or sends it as a chat message
ToStreamResponse ==
  /\ ToHandleMessage
  /\ ToLowerCase(Line) # "exit"
  /\ ~isInAdventure
  /\ ~(StartsWith(Line, "/") /\ Handled(Line))

Command == Split(ToLowerCase(Line))[1]

\* C1: the handling of a submitted line is never in progress at the same time as
\* the handling of another submitted line of the session: at most one call of
\* handleMessage (with the stream, turn or dialog it started) is unfinished.
C1_OneLineAtATime == Len(tasks) <= 1

\* C2: after any raw input and any output operation, 0 <= cursorPos <= length of
\* the buffer the active line editor edits: inputBuffer under the handler that
\* setInputHandler installs, session.buffer under handleStream's own editor.
C2_CursorWithinBuffer ==
  /\ cursorPos >= 0
  /\ inputHandler = "line" => cursorPos <= Len(inputBuffer)
  /\ inputHandler = "null" => cursorPos <= Len(buffer)

\* after the line editor and a dialog, handleStream's editor has moved the shared
\* cursor back inside a two-character buffer
C2_Witness ==
  /\ inputHandler = "null"
  /\ Len(buffer) = 2
  /\ cursorPos = 1
  /\ ArrowLeft \in ev

\* C3: once a generation call has returned win_game or lose_game (gameEndChoice
\* is set), the next submitted line is handled only as the end-of-game choice:
\* "1" restarts the adventure with adventureConversation = <<"start">>, "2"
\* returns to normal mode, anything else re-prompts with the state unchanged; the
\* line is never dispatched as a command nor sent as a chat message.
C3_EndChoiceOnly ==
  [][gameEndChoice /\ Submitted \in ev' =>
       CASE Line = "1" ->
              /\ isInAdventure' /\ ~gameEndChoice'
              /\ adventureConversation' = <<User("start")>>
              /\ UNCHANGED conversation
         [] Line = "2" ->
              /\ ~isInAdventure' /\ ~gameEndChoice'
              /\ CallGeneration \notin ev'
              /\ UNCHANGED conversation
         [] OTHER ->
              /\ MsgChoose \in ev'
              /\ CallGeneration \notin ev'
              /\ UNCHANGED <<isInAdventure, gameEndChoice, conversation,
                             adventureConversation, ended>>]_vars

\* C4: no billed operation (chat message, /retry, adventure turn) invokes the
\* generation collaborator while credits <= 0.
C4_NoGenerationWithoutCredits == [][(CallGeneration \in ev') => credits > 0]_vars

\* C5: a session with credits = 0 that submits a plain chat message receives the
\* out-of-credits message, the generation collaborator is not invoked, and
\* conversation keeps its length.
C5_OutOfCredits ==
  [][credits = 0 /\ ToStreamResponse =>
       /\ MsgOutOfCredits \in ev'
       /\ CallGeneration \notin ev'
       /\ Len(conversation') = Len(conversation)
       /\ credits' = credits]_vars

\* a chat message was refused for lack of credits, after a paid reply was recorded
C5_Witness ==
  /\ credits = 0
  /\ MsgOutOfCredits \in ev
  /\ Submitted \in ev
  /\ Len(conversation) = 2

\* C6: a session that has not completed /register or /login (the guest built by
\* handleStream) is rejected on every /char subcommand with the login-required
\* message, and no character storage operation is performed for it.
C6_GuestCharRejected ==
  [][username = "guest" /\ ToHandleCommand /\ Command = "/char"
       /\ Len(Split(ToLowerCase(Line))) >= 2 =>
       /\ MsgCharLogin \in ev'
       /\ CallCharacters \notin ev']_vars

\* C7: /adventure issued by a guest that never completed /register or /login is
\* rejected with the login prompt: isInAdventure stays false,
\* adventureConversation is unchanged and the generation collaborator is not
\* invoked.
C7_GuestAdventureRejected ==
  [][username = "guest" /\ ToHandleCommand /\ Command = "/adventure" =>
       /\ MsgPlayLogin \in ev'
       /\ ~isInAdventure'
       /\ UNCHANGED adventureConversation
       /\ CallGeneration \notin ev']_vars

\* the messages with which handleInteractiveAuth ends
AuthEndMessages ==
  {"Registered successfully.", MsgTaken, "Registration failed.",
   "Logged in successfully.", "No account found with this username.",
   "Invalid password.", "Login failed. Please try again.", MsgCancelled}

ResolvingPcs == {"regSelect", "regHash", "regInsert", "loginSelect", "loginCompare"}

\* C8: when the interactive auth dialog ends (success, conflict or failed login,
\* storage error, Ctrl-C), the active raw handler is again the line-editing
\* handler, unless a later dialog of the session is at a prompt.
C8_HandlerRestored ==
  [][(ev' \cap AuthEndMessages # {})
       /\ (\A i \in 1..Len(tasks') : tasks'[i].pc \notin DialogPcs)
       => inputHandler' = "line"]_vars

\* C9: Ctrl-C at any prompt of the auth dialog aborts the whole dialog: the
\* cancellation message is written, the line-editing handler is restored, no
\* storage or hashing operation is performed, the dialog's call is over, and
\* userId, username and credits are unchanged.
C9_CtrlCAbortsDialog ==
  [][inputHandler = "dialog" /\ "^C" \in ev' =>
       /\ MsgCancelled \in ev'
       /\ inputHandler' = "line"
       /\ ev' \cap {CallAccounts, CallBcrypt, CallCharacters, CallGameSaves,
                    CallGeneration} = {}
       /\ Len(tasks') = Len(tasks) - 1
       /\ \A i \in 1..Len(tasks') : tasks'[i].pc \notin DialogPcs
       /\ UNCHANGED <<userId, username, credits, accounts>>]_vars

\* a dialog was cancelled with Ctrl-C: the line editor is back and the guest is
\* who it was
C9_Witness ==
  /\ MsgCancelled \in ev
  /\ "^C" \in ev
  /\ inputHandler = "line"
  /\ username = "guest"
  /\ tasks = <<>>

\* the validity of a field as the dialog's contract states it
ValidField(input, type) ==
  /\ Len(input) >= 3
  /\ Len(input) <= 50
  /\ type = "username" => \A k \in 1..Len(input) : CharAt(input, k) \in AlnumChars
  /\ type = "email" => \E k \in 1..Len(input) : CharAt(input, k) = "@"

\* the prompt order of the dialog
NextPc(pc, mode) ==
  CASE pc = "username" -> "password"
    [] pc = "password" -> IF mode = "register" THEN "email" ELSE "loginSelect"
    [] OTHER -> "regSelect"

\* C10: the dialog advances username -> password -> (email, register only) ->
\* resolving in that order; a prompt is left only on Enter with a trimmed input
\* that is valid (length in 3..50, alphanumeric username, '@' in the email); an
\* invalid input re-prompts the same field; no storage call of the dialog is
\* ever pending with an invalid field.
C10_DialogOrderAndValidation ==
  /\ [](\A i \in 1..Len(tasks) :
          tasks[i].pc \in ResolvingPcs =>
            /\ ValidField(tasks[i].username, "username")
            /\ ValidField(tasks[i].password, "password")
            /\ tasks[i].mode = "register" => ValidField(tasks[i].email, "email"))
  /\ [][inputHandler = "dialog" =>
          LET i == DialogTask(St)
              t == tasks[i]
              input == Trim(t.inbuf)
          IN IF FieldEntered \in ev'
             THEN /\ Len(tasks') = Len(tasks)
                  /\ tasks'[i].mode = t.mode
                  /\ IF ValidField(input, t.pc)
                     THEN /\ tasks'[i].pc = NextPc(t.pc, t.mode)
                          /\ tasks'[i][t.pc] = input
                     ELSE /\ tasks'[i].pc = t.pc
                          /\ inputHandler' = "dialog"
             ELSE \/ "^C" \in ev'
                  \/ /\ inputHandler' = "dialog"
                     /\ tasks'[DialogTask(St')].pc = t.pc]_vars

\* a register dialog reached its storage call after re-prompting: its fields are the
\* trimmed, valid inputs, one of them of the greatest accepted length
C10_Witness ==
  \E i \in 1..Len(tasks) :
    /\ tasks[i].pc = "regSelect"
    /\ Len(tasks[i].username) = MaxFieldLen
    /\ tasks[i].email = "a@b"

\* the call i of the session took a step: it ended or it moved
Acted(i) ==
  \/ tasks' = Without(tasks, i)
  \/ Len(tasks') = Len(tasks) /\ tasks'[i] # tasks[i]

\* C11: registering with a username that already exists in accounts returns the
\* "taken" message, creates no account row, and leaves the session's userId,
\* username and credits unchanged (unless the storage call itself throws).
C11_TakenUsernameRejected ==
  [][\A i \in 1..Len(tasks) :
       /\ tasks[i].pc = "regSelect"
       /\ \E a \in accounts : a.username = tasks[i].username
       /\ Acted(i)
       /\ "Registration failed." \notin ev'
       => /\ MsgTaken \in ev'
          /\ tasks' = Without(tasks, i)
          /\ ev' \cap {CallBcrypt, CallAccounts} = {}
          /\ UNCHANGED <<accounts, userId, username, credits>>]_vars

\* a registration as "bob" was refused: the table and the guest are as before
C11_Witness ==
  /\ MsgTaken \in ev
  /\ accounts = InitAccounts
  /\ username = "guest"
  /\ credits = GuestCredits

PairsOnly(conv) ==
  /\ Len(conv) % 2 = 0
  /\ \A k \in 1..Len(conv) :
       conv[k].role = (IF k % 2 = 1 THEN "user" ELSE "assistant")

\* the completing step of a stream appends the call's own user message and,
\* right after it, the reply accumulated by that call
C13_GrowsByTwo ==
  [][\A i \in 1..Len(tasks) :
       /\ tasks[i].pc = "deltas"
       /\ Acted(i)
       /\ MsgModelError \notin ev'
       => conversation' = conversation \o
            <<User(tasks[i].msg), Assistant(Trim(Reply(tasks[i].msg)))>>]_vars

\* C13: conversation is a sequence of adjacent (user, assistant) pairs, each
\* appended whole by one completed stream; stated for the moments at which no
\* call of the session is in flight.
C13_AdjacentPairs == tasks = <<>> => PairsOnly(conversation)

\* the first argument of the submitted command, "" when there is none
Arg1 == LET parts == Split(ToLowerCase(Line)) IN IF Len(parts) >= 2 THEN parts[2] ELSE ""

\* C14: /retry submitted while conversation holds fewer than 2 turns writes
\* "No previous message to retry.", makes no generation call, and leaves
\* conversation and temperature unchanged (whatever its argument).
C14_NothingToRetry ==
  [][ToHandleCommand /\ Command = "/retry" /\ Len(conversation) < 2 =>
       /\ MsgNoRetry \in ev'
       /\ CallGeneration \notin ev'
       /\ UNCHANGED <<conversation, temperature, credits>>]_vars

\* a /retry was refused while one turn was left in conversation
C14_Witness ==
  /\ MsgNoRetry \in ev
  /\ Submitted \in ev
  /\ Len(conversation) = 1

\* the value, in tenths, the /retry arguments of the scripts denote
RetryValue(a) ==
  CASE a = "0" -> {0}
    [] a = "0.8" -> {8}
    [] a = "2" -> {20}
    [] a = "5" -> {50}
    [] a = "-1" -> {0 - 10}
    [] a = "1x" -> {10}
    [] OTHER -> {}

C16_CostFormula ==
  [][\A usage \in CostUsages : \A u \in usage : \A m \in cachedModelList :
       UsageReceived(u) \in ev' /\ m.id = model =>
         /\ 2 * (credits - credits') =
              3 * (u.prompt_tokens * m.prompt + u.completion_tokens * m.completion)
         /\ u.prompt_tokens = 1000 /\ u.completion_tokens = 500
            /\ m.prompt = 2 /\ m.completion = 4
            => credits - credits' = 6000]_vars

\* 0.003 USD was taken from 0.1 USD for usage {1000, 500} at 0.000001 / 0.000002
C16_Witness ==
  /\ "usage:1000:500" \in ev
  /\ model = PricedModel
  /\ \E m \in cachedModelList : m.id = model /\ m.prompt = 2 /\ m.completion = 4
  /\ credits = 194000
  /\ Len(conversation) = 2

\* C17: a completed streamResponse never increases credits: the completing
\* step takes the cost, which is not negative, when usage was reported, and
\* leaves credits as they were when it was not.
C17_BilledNeverIncreases ==
  [][\A i \in 1..Len(tasks) :
       tasks[i].pc = "deltas" /\ Acted(i) /\ MsgModelError \notin ev' =>
         /\ credits' <= credits
         /\ MsgNoUsage \in ev' => credits' = credits]_vars

\* C18: whatever /join and /leave commands a session has issued, and whichever
\* of their storage calls failed, every Room whose members hold the session
\* is the session's currentRoom (so there is at most one such Room).
C18_AtMostOneRoom ==
  \A x \in RoomSessions : \A r \in RoomNames :
    x \in Range(members[r]) => currentRoom[x] = r

\* C19: a /leave by a member that reports "Left room" has removed the session
\* from the room's members and has called the room's broadcast of the leave
\* announcement exactly once; a broadcast writes exactly once to every member
\* other than its sender, and never to the sender.
C19_LeaveBroadcastsOnce ==
  [][/\ \A x \in RoomSessions :
          W(x, "Left room") \in ev' =>
            /\ x \notin Range(members'[calls[x].target])
            /\ casts' = casts (+) Cast(calls[x].target, Announcement(x, "left"), x)
      /\ \A c \in BagToSet(casts) :
          casts' = casts (-) SetToBag({c}) =>
            /\ W(c.sender, "[" \o c.room \o "] " \o c.text) \notin ev'
            /\ \A m \in Range(members[c.room]) \ {c.sender} :
                 W(m, "[" \o c.room \o "] " \o c.text) \in ev']_vars

\* C20: a session whose channel emitted close or error, or that ended with
\* exit, is in no Room's members, and no broadcast writes to it.
C20_ClosedSessionDeregistered ==
  \A x \in closed :
    /\ \A r \in RoomNames : x \notin Range(members[r])
    /\ \A w \in ev : w.to = x => ~StartsWith(w.text, "[")

\* C21: Enter under the line editor that setInputHandler installs hands
\* handleMessage exactly the trimmed inputBuffer (seen in the request a chat
\* line starts) and leaves inputBuffer = "" and cursorPos = 0, wherever the
\* cursor was.
C21_EnterSubmitsTrimmed ==
  [][(inputHandler = "line" /\ Submitted \in ev') =>
       /\ inputBuffer' = ""
       /\ cursorPos' = 0
       /\ (ToStreamResponse /\ CallGeneration \in ev') =>
            /\ Len(tasks') = Len(tasks) + 1
            /\ tasks'[Len(tasks')].msg = Trim(inputBuffer)]_vars

\* a chat line was submitted from the line editor and its request is in flight
C21_Witness ==
  /\ inputHandler = "line"
  /\ Submitted \in ev
  /\ CallGeneration \in ev
  /\ inputBuffer = ""
  /\ cursorPos = 0
  /\ Len(tasks) = 1
  /\ tasks[1].pc \in StreamPcs
  /\ tasks[1].msg = "a"

\* C22: under the line editor, DEL at cursorPos = 0 leaves inputBuffer and
\* cursorPos as they are; DEL at cursorPos > 0 removes exactly the character
\* left of the cursor (what is before it and what is from the cursor on stay)
\* and decrements cursorPos by one.
C22_DelRemovesLeft ==
  inputHandler = "line" =>
    LET t == onData(St, DEL)
        n == Len(inputBuffer)
    IN IF cursorPos = 0
       THEN t.inputBuffer = inputBuffer /\ t.cursorPos = 0
       ELSE /\ t.cursorPos = cursorPos - 1
            /\ Len(t.inputBuffer) = n - 1
            /\ SubSeq(t.inputBuffer, 1, cursorPos - 1) = SubSeq(inputBuffer, 1, cursorPos - 1)
            /\ SubSeq(t.inputBuffer, cursorPos, n - 1) = SubSeq(inputBuffer, cursorPos + 1, n)

\* the cursor was moved back inside a two-character buffer, where DEL removes
\* the first character and keeps the second
C22_Witness ==
  /\ inputHandler = "line"
  /\ Len(inputBuffer) = 2
  /\ cursorPos = 1
  /\ "<redraw>" \in ev
  /\ onData(St, DEL).inputBuffer = SubSeq(inputBuffer, 2, 2)
  /\ Sendable(St, DEL)

\* the adventure turn of task i ends in this step, its final completion having
\* carried the tool calls T
TurnEnds(i, T) ==
  /\ tasks' = Without(tasks, i)
  /\ \/ AdventureCompleted(i, T)
     \/ tasks[i].pc \in {"advSave", "advDelay"} /\ tasks[i].tools = T

\* C23: an adventure turn whose final completion carries win_game or lose_game
\* ends with isInAdventure = FALSE, gameEndChoice = TRUE and an empty
\* adventureConversation; a turn whose completion carries neither ends with
\* isInAdventure = TRUE, gameEndChoice as it was, and adventureConversation
\* holding the turn's user message and, after it, its reply.
C23_TurnOutcome ==
  [][\A i \in 1..Len(tasks) : \A T \in ToolCalls :
       TurnEnds(i, T) =>
         IF "win_game" \in T \/ "lose_game" \in T
         THEN /\ ~isInAdventure'
              /\ gameEndChoice'
              /\ adventureConversation' = <<>>
         ELSE /\ isInAdventure'
              /\ gameEndChoice' = gameEndChoice
              /\ LET c == adventureConversation'
                 IN \E j, k \in 1..Len(c) :
                      /\ j < k
                      /\ c[j] = User(tasks[i].msg)
                      /\ c[k] = Assistant(Trim(Reply(tasks[i].msg)))]_vars

C25_AdventureInAdventure ==
  [][(ToHandleMessage /\ isInAdventure /\ Line = "/adventure") =>
       /\ MsgAlreadyAdventure \in ev'
       /\ adventureConversation' = adventureConversation
       /\ CallGeneration \notin ev']_vars

\* the login of task i ends in this step
LoginEnds(i) ==
  /\ tasks[i].pc \in {"loginSelect", "loginCompare"}
  /\ tasks' = Without(tasks, i)

\* C26: a login ends with userId and username those of the stored account and
\* credits those of the row its SELECT read, exactly when an account with the
\* entered username exists, the entered password matches its hash and no
\* storage call threw; otherwise it ends with userId, username and credits
\* unchanged.
C26_LoginAdoptsIdentity ==
  [][\A i \in 1..Len(tasks) :
       LoginEnds(i) =>
         LET t == tasks[i]
             match == {a \in accounts : /\ a.username = t.username
                                        /\ a.password_hash = Hash(t.password)}
         IN IF match # {} /\ "Login failed. Please try again." \notin ev'
            THEN \E a \in match : \E r \in t.row :
                   /\ userId' = a.id
                   /\ username' = a.username
                   /\ r.id = a.id /\ credits' = r.credits
            ELSE UNCHANGED <<userId, username, credits>>]_vars

\* bob logged in with the stored password and holds the account's identity
C26_Witness ==
  /\ "Logged in successfully." \in ev
  /\ username = "bob"
  /\ \E a \in accounts : a.username = "bob" /\ userId = a.id /\ credits = a.credits
  /\ tasks = <<>>

\* C27: a generation stream that completes without a usage record is not
\* billed: credits, the guest balance and the accounts table are unchanged and
\* no storage call is made; the missing-usage warning is written, and the
\* user message and the reply are appended to conversation.
C27_NoUsageNoBilling ==
  [][\A i \in 1..Len(tasks) :
       GenerationCompleted(i, {}) =>
         /\ credits' = credits
         /\ guestCredits' = guestCredits
         /\ accounts' = accounts
         /\ CallAccounts \notin ev'
         /\ MsgNoUsage \in ev'
         /\ conversation' =
              conversation \o <<User(tasks[i].msg), Assistant(Trim(Reply(tasks[i].msg)))>>
         /\ tasks' = Without(tasks, i)]_vars

\* a guest on the paid model got a reply without a usage record
C27_Witness ==
  /\ MsgNoUsage \in ev
  /\ model = PaidModel
  /\ username = "guest"
  /\ credits = GuestCredits
  /\ guestCredits = GuestCredits
  /\ Len(conversation) = 2
  /\ tasks = <<>>

\* C28: the system message of every chat generation request is the system
\* prompt of currentCharacter when /char use has set one, and the session's
\* systemPrompt when there is none (initially, or after /char clear).
C28_CharacterPrompt ==
  [][\A i \in 1..Len(tasks') :
       (CallGeneration \in ev' /\ tasks'[i].pc = "create"
        /\ (i > Len(tasks) \/ tasks[i].pc # "create")) =>
         IF currentCharacter = {}
         THEN ("system:" \o systemPrompt) \in ev'
         ELSE \A c \in currentCharacter : ("system:" \o c.system_prompt) \in ev']_vars

\* C29: Room.broadcast(message, sender) never writes to the sender and writes
\* the message to every other member of the room; a member whose own write
\* fails (its channel has closed) may miss it, but every other member still
\* gets it.
C29_BroadcastDelivery ==
  [][\A c \in BagToSet(casts) :
       casts' = casts (-) SetToBag({c}) =>
         /\ W(c.sender, "[" \o c.room \o "] " \o c.text) \notin ev'
         /\ \A m \in Range(members[c.room]) \ ({c.sender} \cup closed) :
              W(m, "[" \o c.room \o "] " \o c.text) \in ev']_vars

\* the join announcement of session x is made in this step: addMessage has
\* returned and Room.broadcast is called
JoinAnnouncement(x) ==
  /\ calls[x].after = "join"
  /\ calls[x].target \in RoomNames
  /\ casts' = casts (+) Cast(calls[x].target, Announcement(x, "joined"), x)

\* the window of recent messages (empty or not) is shown to x in this step
WindowShown(x) == W(x, "Joined room") \in ev'

\* C30 as stated: on a successful /join the announcement is made while the
\* window of recent messages is still to be shown to the joining session.
C30_AnnouncedBeforeWindow ==
  [][\A x \in RoomSessions :
       JoinAnnouncement(x) => calls'[x].pc \in {"joinInsert", "joinRecent"}]_vars

\* C30, amended: on a successful /join the joining session is shown the window
\* of recent messages first; the join announcement (Room.addMessage and
\* Room.broadcast) is made after it, in a later step.
C30_WindowBeforeAnnounced ==
  [][\A x \in RoomSessions :
       /\ WindowShown(x) =>
            /\ calls[x].pc = "joinRecent"
            /\ calls'[x].pc = "joinAnnounce"
            /\ casts' = casts
       /\ JoinAnnouncement(x) =>
            /\ calls[x].pc = "joinAnnounce"
            /\ calls'[x] = Idle
            /\ ~WindowShown(x)]_vars

\* s1 has been shown a non-empty window and its announcement is still to come
C30_Witness ==
  /\ calls["s1"].pc = "joinAnnounce"
  /\ W("s1", "Recent messages:") \in ev
  /\ W("s1", "Joined room") \in ev
  /\ casts = EmptyBag
\* the number of fences in s, read from the left
RECURSIVE CountMarkers(_)
CountMarkers(s) ==
  IF Len(s) < Len(Fence) THEN 0
  ELSE IF StartsWith(s, Fence) THEN 1 + CountMarkers(SubSeq(s, Len(Fence) + 1, Len(s)))
  ELSE CountMarkers(SubSeq(s, 2, Len(s)))

\* C31: an iteration of the delta loop of an adventure turn writes buffered
\* text only when the number of triple-backtick markers received so far in the
\* response is even (outside a fence), and what it writes are complete lines
\* of the response.
C31_WrittenOutsideFence ==
  [][\A content \in Deltas :
       (Chunk(content) /\ turn'.out # <<>>) =>
         /\ CountMarkers(turn'.fullResponse) % 2 = 0
         /\ \A k \in 1..Len(turn'.out) :
              turn'.out[k] # "\r\n" =>
                Includes("\n" \o turn'.fullResponse,
                         "\n" \o SubSeq(turn'.out[k], 2, Len(turn'.out[k])) \o "\n")]_vars
\* C32: when a save_game upsert of a user commits, storage holds exactly one
\* game save for that user, and its conversation is the adventureConversation
\* as of that save, holding the turn's user message and, after it, its reply;
\* no user ever has more than one game save.
C32_OneSavePerUser ==
  [][/\ \A a \in accounts' : Cardinality({g \in gameSaves' : g.user_id = a.id}) <= 1
     /\ \A i \in 1..Len(tasks) :
          GameSaved(i, TRUE) =>
            LET rows == {g \in gameSaves' : g.user_id = userId}
            IN /\ Cardinality(rows) = 1
               /\ \A g \in rows :
                    /\ g.conversation = tasks[i].arg[2]
                    /\ \E j, k \in 1..Len(g.conversation) :
                         /\ j < k
                         /\ g.conversation[j] = User(tasks[i].msg)
                         /\ g.conversation[k] = Assistant(Trim(Reply(tasks[i].msg)))]_vars
\* the call i is a /retry whose stream completes in this step
RetryCompletes(i) ==
  /\ tasks[i].pc = "deltas"
  /\ tasks[i].arg # <<>>
  /\ Acted(i)
  /\ MsgModelError \notin ev'

\* C33: when the stream of a /retry completes, conversation is again as long
\* as before the /retry: the retried user turn, left in place by the /retry,
\* appears once and the new assistant turn is appended in place of the popped
\* one.
C33_RetryReplacesReply ==
  [][\A i \in 1..Len(tasks) :
       RetryCompletes(i) =>
         /\ tasks[i].arg[1] = User(tasks[i].msg)
         /\ conversation' =
              conversation \o <<Assistant(Trim(Reply(tasks[i].msg)))>>]_vars
\* C34: a /retry that produces no new response, because credits <= 0 when it
\* is submitted or because the generation collaborator throws, leaves
\* conversation as it was before the /retry: the step that refuses the retry
\* leaves conversation unchanged, and the step in which the retry's generation
\* call throws leaves the previous assistant turn as the last entry.
C34_FailedRetryKeepsConversation ==
  [][/\ (ToHandleCommand /\ Command = "/retry" /\ credits <= 0) =>
          conversation' = conversation
     /\ \A i \in 1..Len(tasks) :
          (tasks[i].pc \in StreamPcs /\ tasks[i].arg # <<>> /\ Acted(i)
             /\ MsgModelError \in ev') =>
            /\ Len(conversation') > 0
            /\ conversation'[Len(conversation')].role = "assistant"]_vars
\* the balance stored for the key of this session
StoredBalance ==
  IF IsAccountUser(St)
  THEN (CHOOSE a \in accounts : a.username = username).credits
  ELSE guestCredits

\* the balance the two sessions started from
StartBalance ==
  IF IsAccountUser(St)
  THEN (CHOOSE a \in InitAccounts : a.username = username).credits
  ELSE GuestCredits

\* C35: when two sessions that share a balance key (two guests of one client
\* IP, or two logins of one account) have finished their billed operations,
\* the stored balance is the balance both started from minus the costs charged
\* by both; what a session was charged is what its own credits went down by.
C35_SharedBalance ==
  (/\ tasks = <<>>
   /\ peer.tasks = <<>>
   /\ peer.userId = userId
   /\ peer.username = username) =>
     StoredBalance =
       StartBalance - ((StartBalance - credits) + (StartBalance - peer.credits))
\* the session s holds the identity the register dialog gives for RegName
Adopted(s) == s.username = RegName

\* the session s is the guest session it was before the dialog
Untouched(s) ==
  s.userId = ClientIP /\ s.username = "guest" /\ s.credits = GuestCredits

\* C36: with two sessions running the register dialog for the same username,
\* in any interleaving, at most one account row with that username exists, at
\* most one of the two sessions adopts the new identity, and a session that
\* did not adopt it has its userId, username and credits unchanged.
C36_OneRegistrationWins ==
  (\E i \in 1..Len(peer.tasks) : peer.tasks[i].mode = "register") \/ Adopted(peer)
     \/ Adopted(St) \/ (\E i \in 1..Len(tasks) : tasks[i].mode = "register")
  => /\ Cardinality({a \in accounts : a.username = RegName}) <= 1
     /\ ~(Adopted(St) /\ Adopted(peer))
     /\ Adopted(St) \/ Untouched(St)
     /\ Adopted(peer) \/ Untouched(peer)

\* both sessions passed the SELECT, one registered and the other's INSERT failed
C36_Witness ==
  /\ Adopted(peer)
  /\ Untouched(St)
  /\ tasks = <<>>
  /\ "Registration failed." \in ev
  /\ \E a \in accounts : a.username = RegName /\ a.password_hash = Hash("pw2")
\* C37: an adventure turn whose generation call throws, no other call of the
\* session being in progress, leaves adventureConversation as it was before
\* the turn pushed its user message, and so a sequence of (user, assistant)
\* pairs.
C37_FailedTurnKeepsTranscript ==
  [][\A i \in 1..Len(tasks) :
       (AdventureFailed(i) /\ Len(tasks) = 1) =>
         /\ adventureConversation' = Pop(adventureConversation)
         /\ PairsOnly(adventureConversation')]_vars
\* C38: isInAdventure and gameEndChoice are never both true.
C38_OneAdventureState == ~(isInAdventure /\ gameEndChoice)
\* C39: a line "exit" submitted while isInAdventure leaves the adventure mode
\* and nothing else: isInAdventure becomes false and the session stays open.
C39_ExitLeavesAdventure ==
  [][(Submitted \in ev' /\ isInAdventure /\ ToLowerCase(Line) = "exit") =>
       /\ ~isInAdventure'
       /\ ~ended']_vars
\* C40: a plain message sent by a session in a room is delivered to every
\* other open session that has joined the same room: the sessions that join
\* one room are members of one Room object.
C40_PlainMessageDelivered ==
  [][\A c \in BagToSet(casts) : \A thrown \in 0..Cardinality(RoomSessions) :
       (OwnRoomDelivered(c, thrown) /\ c.text = Hello) =>
         \A y \in RoomSessions \ {c.sender} :
           (currentRoom[y] = c.room /\ y \notin closed) =>
             W(y, "[" \o c.room \o "] " \o c.text) \in ev']_vars

====
